---- MODULE Spec2Model ----
(***************************************************************************)
(* A model of the core kernel runtime of project_OS: the heap allocator    *)
(* (src/src/kernel/heap.c) and the subsystems layered on it.               *)
(*                                                                         *)
(* 64-bit unsigned quantities are represented by their signed residue      *)
(* modulo 2^64: a negative integer v stands for the uint64 value 2^64 + v. *)
(* Addition and subtraction are then the plain integer operations, and     *)
(* the unsigned comparisons are ULt / UGe below.                           *)
(*                                                                         *)
(* Memory is kept at the level of block headers: mem maps the address of   *)
(* every header the allocator wrote to its fields.  A header is always     *)
(* written whole, and a write into a payload is followed only as far as it *)
(* clears (memset) headers lying inside the payload.                       *)
(***************************************************************************)
EXTENDS Integers, Sequences, FiniteSets, TLC

\* ------------------------------------------------------------------ bounds
\* The arena is HeapUnits header-sized units long (the kernel's is 16 MiB);
\* it is small enough for the calls explored to use it up.
HeapUnits == 71
\* Heap calls explored from heap_init.
MaxCalls == 7
\* Module calls explored, and heap calls of other code between them.
MaxModCalls == 4
ModHeapCalls == 2
\* Syscall-layer calls explored, and the length of a user string.
MaxSyscalls == 3
UserStrLen == 2
MaxVfsCalls == 4
MaxOpenCalls == 7
MaxLifeCalls == 5
MaxReallocCalls == 6
MaxDirCalls == 3
MaxComps == 2
MaxDevCalls == 4
MaxFreeCalls == 5
MaxElfCalls == 3
MaxDrvCalls == 4
MaxRmCalls == 5
MaxMntCalls == 4
MaxIntrCalls == 4
MaxLayoutCalls == 3
MaxCallocCalls == 3

\* ------------------------------------------------------------- heap.c
NULL == 0
HEAP_START == 4194304
HEADER_SIZE == 32
MIN_BLOCK_SIZE == 32
HEAP_SIZE == HeapUnits * HEADER_SIZE
HEAP_END == HEAP_START + HEAP_SIZE
BLOCK_MAGIC == "DEADBEEF"
BLOCK_FREE == 0
BLOCK_USED == 1


\* Request sizes handed to kmalloc by the callers of the heap: three small
\* ones and one that leaves nine header-sized units of the fresh arena.
ReqSizes == {1, 40, 64, HEAP_SIZE - 10 * HEADER_SIZE}

VARIABLES
    heap,   \* [mem, free_list, total_allocated, num_allocations]
    live,   \* payload pointers returned by kmalloc and not yet freed
    hung,   \* TRUE once a heap walk has entered a loop it never leaves
    calls,  \* heap calls made so far
    op      \* the last heap call: [name, arg, ret]

VARIABLES
    loaded_modules,      \* module.c: the list of Module records, head first
    module_count,        \* module.c
    kernel_symbols,      \* module.c: table given to module_register_symbols
    elf_kernel_symbols,  \* elf.c: table given to elf_register_kernel_symbols
    mcalls,              \* module calls made so far
    mop                  \* the last module call and the heap statistics before it

heapVars == <<heap, live, hung, calls, op>>
modVars == <<loaded_modules, module_count, kernel_symbols, elf_kernel_symbols, mcalls, mop>>

\* Unsigned 64-bit comparison on signed residues.
ULt(a, b) == IF (a >= 0) = (b >= 0) THEN a < b ELSE a >= 0
UGe(a, b) == ~ULt(a, b)

BlockHeader(flags, size, next, prev) ==
    [magic |-> BLOCK_MAGIC, flags |-> flags, size |-> size,
     next |-> next, prev |-> prev]

\* heap_init: one free block spanning the arena.
heap_init ==
    [mem |-> (HEAP_START :> BlockHeader(BLOCK_FREE, HEAP_SIZE - HEADER_SIZE, NULL, NULL)),
     free_list |-> HEAP_START,
     total_allocated |-> 0,
     num_allocations |-> 0]

\* The walk of find_free_block from `current`; `seen` holds the headers
\* already visited with the same best_fit, so a revisit is an endless loop.
RECURSIVE FindWalk(_, _, _, _, _)
FindWalk(mem, current, best_fit, size, seen) ==
    IF current = NULL THEN [hang |-> FALSE, block |-> best_fit]
    ELSE IF current \in seen THEN [hang |-> TRUE, block |-> NULL]
    ELSE
      LET c == mem[current]
          fits == c.flags = BLOCK_FREE /\ UGe(c.size, size)
          better == fits /\ (best_fit = NULL \/ ULt(c.size, mem[best_fit].size))
      IN IF better /\ c.size = size
           THEN [hang |-> FALSE, block |-> current]
           ELSE FindWalk(mem, c.next, IF better THEN current ELSE best_fit, size,
                         IF better THEN {current} ELSE seen \cup {current})

find_free_block(h, size) == FindWalk(h.mem, h.free_list, NULL, size, {})

\* split_block: `remaining` is computed in uint64, so it wraps when the
\* block exceeds the request by less than a header.
split_block(mem, block, size) ==
    LET b == mem[block]
        remaining == b.size - size - HEADER_SIZE
        new_block == block + HEADER_SIZE + size
        m1 == (new_block :> BlockHeader(BLOCK_FREE, remaining, b.next, block)) @@ mem
        m2 == IF b.next # NULL
                THEN [m1 EXCEPT ![b.next].prev = new_block]
                ELSE m1
    IN IF UGe(remaining, MIN_BLOCK_SIZE)
         THEN [m2 EXCEPT ![block].next = new_block, ![block].size = size]
         ELSE mem

\* remove_from_free_list: the list head moves to the block's successor in
\* the block chain; the blocks stay linked.
remove_from_free_list(free_list, mem, block) ==
    IF block = free_list THEN mem[block].next ELSE free_list

AlignSize(size) ==
    LET a == ((size + 7) \div 8) * 8
    IN IF ULt(a, MIN_BLOCK_SIZE) THEN MIN_BLOCK_SIZE ELSE a

KmallocResult(h, ptr, hang) == [heap |-> h, ptr |-> ptr, hang |-> hang]

\* kmalloc without lines 146-147: the block is neither marked used nor taken
\* off the free list.
KmallocTake_leaves_block(h, block, m1) ==
    KmallocResult([mem |-> m1,
                   free_list |-> h.free_list,
                   total_allocated |-> h.total_allocated + m1[block].size,
                   num_allocations |-> h.num_allocations + 1],
                  block + HEADER_SIZE, FALSE)

\* kmalloc from "mark as used" on; m1 is the memory after split_block.
KmallocTake(h, block, m1) ==
    KmallocResult([mem |-> [m1 EXCEPT ![block].flags = BLOCK_USED],
                   free_list |-> remove_from_free_list(h.free_list, m1, block),
                   total_allocated |-> h.total_allocated + m1[block].size,
                   num_allocations |-> h.num_allocations + 1],
                  block + HEADER_SIZE, FALSE)

\* kmalloc once find_free_block has answered f (hang: it never returns).
KmallocFit(h, size, f) ==
    IF f.hang THEN KmallocResult(h, NULL, TRUE)
    ELSE IF f.block = NULL THEN KmallocResult(h, NULL, FALSE)
    ELSE KmallocTake(h, f.block, split_block(h.mem, f.block, size))

\* kmalloc as a function of the heap: the heap after the call and the
\* pointer returned.
kmalloc(h, n) ==
    IF n = 0 THEN KmallocResult(h, NULL, FALSE)
    ELSE KmallocFit(h, AlignSize(n), find_free_block(h, AlignSize(n)))

\* coalesce, first half: merge with the next block when it is free.
coalesce_next(mem, block) ==
    LET b == mem[block]
        n == b.next
    IN IF n # NULL /\ mem[n].flags = BLOCK_FREE
         THEN LET nn == mem[n].next
                  m1 == [mem EXCEPT ![block].size = b.size + HEADER_SIZE + mem[n].size,
                                    ![block].next = nn]
              IN IF nn # NULL THEN [m1 EXCEPT ![nn].prev = block] ELSE m1
         ELSE mem

\* coalesce, second half: merge into the previous block when it is free.
coalesce_prev(mem, block) ==
    LET b == mem[block]
        p == b.prev
    IN IF p # NULL /\ mem[p].flags = BLOCK_FREE
         THEN LET m1 == [mem EXCEPT ![p].size = mem[p].size + HEADER_SIZE + b.size,
                                    ![p].next = b.next]
              IN IF b.next # NULL THEN [m1 EXCEPT ![b.next].prev = p] ELSE m1
         ELSE mem

coalesce(mem, block) == coalesce_prev(coalesce_next(mem, block), block)

\* kfree of a block that passed the magic and double-free checks.
KfreeBlock(h, block) ==
    [mem |-> coalesce([h.mem EXCEPT ![block].flags = BLOCK_FREE], block),
     free_list |-> IF h.free_list = NULL THEN block ELSE h.free_list,
     total_allocated |-> h.total_allocated - h.mem[block].size,
     num_allocations |-> h.num_allocations - 1]

\* A pointer that is no block's payload address fails the magic check.
IsBlockPtr(h, ptr) ==
    /\ ptr - HEADER_SIZE \in DOMAIN h.mem
    /\ h.mem[ptr - HEADER_SIZE].magic = BLOCK_MAGIC

kfree_no_flags_test(h, ptr) ==
    IF ptr = NULL THEN h
    ELSE IF ~IsBlockPtr(h, ptr) THEN h
    ELSE KfreeBlock(h, ptr - HEADER_SIZE)

\* kfree as a function of the heap.
kfree(h, ptr) ==
    IF ptr = NULL THEN h
    ELSE IF ~IsBlockPtr(h, ptr) THEN h
    ELSE IF h.mem[ptr - HEADER_SIZE].flags # BLOCK_USED THEN h
    ELSE KfreeBlock(h, ptr - HEADER_SIZE)

\* The blocks reachable from the arena's first block by forward links, in
\* order; the walk stops at a header it has already listed.
RECURSIVE ChainFrom(_, _, _)
ChainFrom(mem, current, acc) ==
    IF current = NULL \/ current \in {acc[i] : i \in 1..Len(acc)}
      THEN acc
      ELSE ChainFrom(mem, mem[current].next, Append(acc, current))

Chain(h) == ChainFrom(h.mem, HEAP_START, <<>>)
ChainSet(h) == {Chain(h)[i] : i \in 1..Len(Chain(h))}

\* ------------------------------------------------- heap.c: statistics
\* heap_get_stats: the walk from the arena's first block stops at NULL, at
\* an address outside the arena or at a bad magic; `seen` detects a walk
\* that never ends.
RECURSIVE StatsWalk(_, _, _, _, _)
StatsWalk(mem, current, nfree, largest, seen) ==
    IF current = NULL \/ ~(current < HEAP_END) \/ mem[current].magic # BLOCK_MAGIC
      THEN [hang |-> FALSE, num_free_blocks |-> nfree, largest_free |-> largest]
    ELSE IF current \in seen
      THEN [hang |-> TRUE, num_free_blocks |-> 0, largest_free |-> 0]
    ELSE
      LET c == mem[current]
          isFree == c.flags = BLOCK_FREE
      IN StatsWalk(mem, c.next,
                   IF isFree THEN nfree + 1 ELSE nfree,
                   IF isFree /\ ULt(largest, c.size) THEN c.size ELSE largest,
                   seen \cup {current})

heap_get_stats(h) ==
    LET w == StatsWalk(h.mem, HEAP_START, 0, 0, {})
    IN [hang |-> w.hang,
        used_size |-> h.total_allocated,
        num_allocations |-> h.num_allocations,
        num_free_blocks |-> w.num_free_blocks,
        largest_free |-> w.largest_free]

\* memset(p, 0, n) as far as block headers are concerned: a header word
\* that lies inside [p, p + n) reads as zero afterwards (p and n multiples
\* of 8; the header's words are magic+flags, size, next, prev).
ZERO_MAGIC == "00000000"
Zeroed(a, k, p, n) == p <= a + 8 * k /\ a + 8 * k < p + n
memset0(mem, p, n) ==
    [a \in DOMAIN mem |->
        [magic |-> IF Zeroed(a, 0, p, n) THEN ZERO_MAGIC ELSE mem[a].magic,
         flags |-> IF Zeroed(a, 0, p, n) THEN 0 ELSE mem[a].flags,
         size  |-> IF Zeroed(a, 1, p, n) THEN 0 ELSE mem[a].size,
         next  |-> IF Zeroed(a, 2, p, n) THEN NULL ELSE mem[a].next,
         prev  |-> IF Zeroed(a, 3, p, n) THEN NULL ELSE mem[a].prev]]

\* ------------------------------------------------------------- elf.h
ELF_OK == 0
ELF_ERR_INVALID == -1
ELF_ERR_UNSUPPORTED == -2
ELF_ERR_NOMEM == -3
ELF_ERR_SYMBOL == -6
ELF_MAGIC == "7F454C46"
ELFCLASS64 == 2
ELFDATA2LSB == 1
EM_X86_64 == 62
ET_REL == 1
ET_EXEC == 2
SHT_NULL == 0
SHT_PROGBITS == 1
SHT_SYMTAB == 2
SHT_STRTAB == 3
SHT_RELA == 4
SHT_NOBITS == 8
SIZEOF_Elf64_Sym == 24
SIZEOF_Module == 496
MAX_MODULES == 64
MAX_MODULE_DEPS == 16
MODULE_STATE_LOADING == 1
MODULE_STATE_RUNNING == 3
MODULE_STATE_ERROR == 4
MODULE_FLAG_ESSENTIAL == 2

\* ---------------------------------------------------- the object files
\* A relocatable object as elf_load_module reads it: the header fields
\* elf_validate tests, the section headers (ELF index = position - 1),
\* the symbol table, the relocation entries of its SHT_RELA section, and
\* what its init hook returns when called.
Shdr(type, alloc, addralign, size, info) ==
    [sh_type |-> type, alloc |-> alloc, sh_addralign |-> addralign,
     sh_size |-> size, sh_info |-> info]
Sym(name, shndx, value) == [name |-> name, st_shndx |-> shndx, st_value |-> value]

ObjSections(nrela, nsyms) ==
    << Shdr(SHT_NULL, FALSE, 0, 0, 0),
       Shdr(SHT_PROGBITS, TRUE, 16, 64, 0),
       Shdr(SHT_RELA, FALSE, 8, 24 * nrela, 1),
       Shdr(SHT_SYMTAB, FALSE, 8, SIZEOF_Elf64_Sym * nsyms, 4),
       Shdr(SHT_STRTAB, FALSE, 1, 40, 0),
       Shdr(SHT_STRTAB, FALSE, 1, 48, 0) >>

ObjFile(name, symtab, relas, initRet) ==
    [name |-> name, size_ok |-> TRUE, magic |-> ELF_MAGIC, ei_class |-> ELFCLASS64,
     ei_data |-> ELFDATA2LSB, e_machine |-> EM_X86_64,
     e_type |-> ET_REL, e_shstrndx |-> 5,
     sections |-> ObjSections(Len(relas), Len(symtab)),
     symtab |-> symtab, relas |-> relas, initRet |-> initRet]

\* alpha defines a_func; beta imports kmalloc; gamma imports a_func;
\* delta imports a symbol nobody defines.  relas hold symbol-table indices.
Objects ==
    { ObjFile("alpha", << Sym("", 0, 0), Sym("module_init", 1, 0),
                          Sym("module_cleanup", 1, 16), Sym("a_func", 1, 32) >>,
              << 3 >>, 0),
      ObjFile("beta",  << Sym("", 0, 0), Sym("module_init", 1, 0),
                          Sym("kmalloc", 0, 0) >>,
              << 2 >>, 0),
      ObjFile("gamma", << Sym("", 0, 0), Sym("module_init", 1, 0),
                          Sym("a_func", 0, 0) >>,
              << 2 >>, 0),
      ObjFile("delta", << Sym("", 0, 0), Sym("no_such_symbol", 0, 0) >>,
              << 1 >>, 0) }

\* epsilon has neither an init nor a cleanup hook; zeta's init hook fails.
LifeObjects ==
    { ObjFile("alpha", << Sym("", 0, 0), Sym("module_init", 1, 0),
                          Sym("module_cleanup", 1, 16), Sym("a_func", 1, 32) >>,
              << 3 >>, 0),
      ObjFile("gamma", << Sym("", 0, 0), Sym("module_init", 1, 0),
                          Sym("a_func", 0, 0) >>,
              << 2 >>, 0),
      ObjFile("delta", << Sym("", 0, 0), Sym("no_such_symbol", 0, 0) >>,
              << 1 >>, 0),
      ObjFile("epsilon", << Sym("", 0, 0), Sym("e_func", 1, 0) >>,
              << 1 >>, 0),
      ObjFile("zeta", << Sym("", 0, 0), Sym("module_init", 1, 0),
                         Sym("z_func", 1, 8) >>,
              << 2 >>, -1) }

\* Symbol tables a caller may hand to module_register_symbols or to
\* elf_register_kernel_symbols: << name, address >> entries.
KERNEL_TEXT == 1048576
SymbolTables ==
    { << >>,
      << [name |-> "a_func", address |-> KERNEL_TEXT + 4096] >>,
      << [name |-> "kmalloc", address |-> KERNEL_TEXT + 16] >> }

\* ------------------------------------------------------------- elf.c
elf_validate(obj) ==
    IF ~obj.size_ok THEN ELF_ERR_INVALID
    ELSE IF obj.magic # ELF_MAGIC THEN ELF_ERR_INVALID
    ELSE IF obj.ei_class # ELFCLASS64 THEN ELF_ERR_UNSUPPORTED
    ELSE IF obj.ei_data # ELFDATA2LSB THEN ELF_ERR_UNSUPPORTED
    ELSE IF obj.e_machine # EM_X86_64 THEN ELF_ERR_UNSUPPORTED
    ELSE ELF_OK

\* (x + a - 1) & ~(a - 1) for a power of two a; for a = 0 the mask is 0.
AlignUp(x, a) == IF a = 0 THEN 0 ELSE ((x + a - 1) \div a) * a

\* The cursor of the two layout loops after the first k section headers.
RECURSIVE LayoutCursor(_, _, _)
LayoutCursor(secs, k, start) ==
    IF k = 0 THEN start
    ELSE LET prev == LayoutCursor(secs, k - 1, start)
             sh == secs[k]
         IN IF sh.alloc THEN AlignUp(prev, sh.sh_addralign) + sh.sh_size ELSE prev

TotalSize(obj) == LayoutCursor(obj.sections, Len(obj.sections), 0)

\* section_addrs[i] for ELF section index i (0 where the section is not
\* allocated: the array is zero-filled first).
SectionAddr(obj, base, i) ==
    LET sh == obj.sections[i + 1]
    IN IF sh.alloc
         THEN AlignUp(LayoutCursor(obj.sections, i, base), sh.sh_addralign)
         ELSE 0

RECURSIVE FindInTable(_, _)
FindInTable(table, name) ==
    IF table = << >> THEN NULL
    ELSE IF Head(table).name = name THEN Head(table).address
    ELSE FindInTable(Tail(table), name)

\* find_kernel_symbol: elf.c's own table, set by elf_register_kernel_symbols.
find_kernel_symbol(elfTable, name) == FindInTable(elfTable, name)

HasSymtab(obj) == \E i \in 1..Len(obj.sections) : obj.sections[i].sh_type = SHT_SYMTAB

\* The value the relocation loop computes for symbol-table entry s.
SymVal(obj, base, elfTable, s) ==
    IF s.st_shndx = 0
      THEN find_kernel_symbol(elfTable, s.name)
      ELSE SectionAddr(obj, base, s.st_shndx) + s.st_value

\* The first SHT_STRTAB section that is not e_shstrndx, and its size.
StrtabIdx(obj) ==
    {i \in 1..Len(obj.sections) :
        obj.sections[i].sh_type = SHT_STRTAB /\ i - 1 # obj.e_shstrndx}
HasStrtab(obj) == StrtabIdx(obj) # {}
StrtabSize(obj) ==
    obj.sections[CHOOSE i \in StrtabIdx(obj) : \A j \in StrtabIdx(obj) : i <= j].sh_size

\* The entries of the SHT_RELA section that the relocation loop processes:
\* none when the section it applies to (sh_info) is not allocated.
RelasApplied(obj) ==
    LET idx == {i \in 1..Len(obj.sections) : obj.sections[i].sh_type = SHT_RELA}
    IN IF idx # {} /\ \A i \in idx : obj.sections[obj.sections[i].sh_info + 1].alloc
         THEN obj.relas ELSE << >>

NoImage ==
    [base |-> NULL, size |-> 0, init_func |-> NULL, cleanup_func |-> NULL,
     symtab |-> NULL, strtab |-> NULL, num_symbols |-> 0,
     syms |-> << >>, resolved |-> << >>]

ElfResult(rc, h, image, hang) == [rc |-> rc, heap |-> h, image |-> image, hang |-> hang]

\* The runtime address of the last symbol of the table whose name is in
\* `names` (NULL when there is none): the init/cleanup scan.
HookAddr(obj, base, names) ==
    LET idx == {i \in 1..Len(obj.symtab) : obj.symtab[i].name \in names}
    IN IF idx = {} THEN NULL
       ELSE LET s == obj.symtab[CHOOSE i \in idx : \A j \in idx : j <= i]
            IN SectionAddr(obj, base, s.st_shndx) + s.st_value

\* The image record elf_load_module fills in (lines 377-426); `resolved`
\* lists the symbol value computed for each relocation applied.
ElfImage(obj, base, symtab, strtab, elfTable) ==
    [base |-> base, size |-> TotalSize(obj),
     init_func |-> HookAddr(obj, base, {"module_init", "init_module"}),
     cleanup_func |-> HookAddr(obj, base, {"module_cleanup", "cleanup_module"}),
     symtab |-> symtab, strtab |-> strtab,
     num_symbols |-> IF symtab # NULL THEN Len(obj.symtab) ELSE 0,
     syms |-> IF symtab = NULL THEN << >>
              ELSE [i \in 1..Len(obj.symtab) |->
                      IF obj.symtab[i].st_shndx # 0
                         /\ obj.symtab[i].st_shndx < Len(obj.sections)
                        THEN [obj.symtab[i] EXCEPT !.st_value =
                                @ + SectionAddr(obj, base, obj.symtab[i].st_shndx)]
                        ELSE obj.symtab[i]],
     resolved |-> [j \in 1..Len(RelasApplied(obj)) |->
                      SymVal(obj, base, elfTable, obj.symtab[RelasApplied(obj)[j] + 1])]]

Memset0(h, p, n) == [h EXCEPT !.mem = memset0(h.mem, p, n)]

\* elf_load_module, last step: a4 is the string table copy's allocation.
ElfLoadFinish(base, section_addrs, symtab, a4, obj, elfTable) ==
    IF a4.hang THEN ElfResult(ELF_OK, a4.heap, NoImage, TRUE)
    ELSE ElfResult(ELF_OK, kfree(a4.heap, section_addrs),
                   ElfImage(obj, base, symtab, a4.ptr, elfTable), FALSE)

\* elf_load_module, the table copies: a3 is the symbol table copy's
\* allocation (a failure there is not an error).
ElfLoadTables(base, section_addrs, a3, obj, elfTable) ==
    IF a3.hang THEN ElfResult(ELF_OK, a3.heap, NoImage, TRUE)
    ELSE ElfLoadFinish(base, section_addrs, a3.ptr,
                       IF HasStrtab(obj) THEN kmalloc(a3.heap, StrtabSize(obj))
                                         ELSE KmallocResult(a3.heap, NULL, FALSE),
                       obj, elfTable)

Unresolved(obj, elfTable) ==
    \E j \in 1..Len(RelasApplied(obj)) :
        /\ obj.symtab[RelasApplied(obj)[j] + 1].st_shndx = 0
        /\ find_kernel_symbol(elfTable, obj.symtab[RelasApplied(obj)[j] + 1].name) = NULL

\* The relocation step with an error path that frees section_addrs only.
ElfLoadRelocate_leak_base(base, section_addrs, h, obj, elfTable) ==
    IF ~HasSymtab(obj)
      THEN ElfResult(ELF_ERR_INVALID, kfree(kfree(h, section_addrs), base), NoImage, FALSE)
    ELSE IF Unresolved(obj, elfTable)
      THEN ElfResult(ELF_ERR_SYMBOL, kfree(h, section_addrs), NoImage, FALSE)
    ELSE ElfLoadTables(base, section_addrs,
                       kmalloc(h, Len(obj.symtab) * SIZEOF_Elf64_Sym), obj, elfTable)

\* elf_load_module, symbol table search and relocation.
ElfLoadRelocate(base, section_addrs, h, obj, elfTable) ==
    IF ~HasSymtab(obj)
      THEN ElfResult(ELF_ERR_INVALID, kfree(kfree(h, section_addrs), base), NoImage, FALSE)
    ELSE IF Unresolved(obj, elfTable)
      THEN ElfResult(ELF_ERR_SYMBOL, kfree(kfree(h, section_addrs), base), NoImage, FALSE)
    ELSE ElfLoadTables(base, section_addrs,
                       kmalloc(h, Len(obj.symtab) * SIZEOF_Elf64_Sym), obj, elfTable)

\* elf_load_module once section_addrs has been asked for (a2).
ElfLoadSections(base, a2, obj, elfTable) ==
    IF a2.hang THEN ElfResult(ELF_OK, a2.heap, NoImage, TRUE)
    ELSE IF a2.ptr = NULL
      THEN ElfResult(ELF_ERR_NOMEM, kfree(a2.heap, base), NoImage, FALSE)
    ELSE ElfLoadRelocate(base, a2.ptr, Memset0(a2.heap, a2.ptr, Len(obj.sections) * 8),
                         obj, elfTable)

\* elf_load_module once the image buffer has been asked for (a1).
ElfLoadBase(a1, obj, elfTable) ==
    IF a1.hang THEN ElfResult(ELF_OK, a1.heap, NoImage, TRUE)
    ELSE IF a1.ptr = NULL THEN ElfResult(ELF_ERR_NOMEM, a1.heap, NoImage, FALSE)
    ELSE ElfLoadSections(a1.ptr,
                         kmalloc(Memset0(a1.heap, a1.ptr, TotalSize(obj)),
                                 Len(obj.sections) * 8),
                         obj, elfTable)

\* elf_load_module as a function of the heap and of elf.c's symbol table.
elf_load_module(h, obj, elfTable) ==
    IF elf_validate(obj) # ELF_OK THEN ElfResult(elf_validate(obj), h, NoImage, FALSE)
    ELSE IF obj.e_type # ET_REL THEN ElfResult(ELF_ERR_UNSUPPORTED, h, NoImage, FALSE)
    ELSE ElfLoadBase(kmalloc(h, TotalSize(obj)), obj, elfTable)

\* elf_unload: free the symbol table copy, the string table copy, the image.
KfreeIf(h, ptr) == IF ptr # NULL THEN kfree(h, ptr) ELSE h
elf_unload(h, image) ==
    KfreeIf(KfreeIf(KfreeIf(h, image.symtab), image.strtab), image.base)

\* elf_find_symbol: the first entry of the image's symbol table copy with
\* that name gives the answer.
elf_find_symbol(image, name) ==
    IF image.symtab = NULL \/ image.strtab = NULL THEN NULL
    ELSE LET idx == {i \in 1..image.num_symbols : image.syms[i].name = name}
         IN IF idx = {} THEN NULL
            ELSE image.syms[CHOOSE i \in idx : \A j \in idx : i <= j].st_value

\* ------------------------------------------------------------ module.c
\* builtin_symbols: name and position in the table; the address of entry k
\* is KERNEL_TEXT + 16 * k.
builtin_symbols ==
    << "kmalloc", "kfree", "krealloc", "kcalloc", "console_print",
       "console_putchar", "console_clear", "console_newline",
       "device_register", "device_unregister", "device_create",
       "device_destroy", "driver_register", "driver_unregister",
       "vfs_lookup", "vfs_register_filesystem", "module_find",
       "module_find_symbol" >>

\* The search of the loaded modules without the test of the state.
RECURSIVE FindInModules_any_state(_, _)
FindInModules_any_state(mods, name) ==
    IF mods = << >> THEN NULL
    ELSE IF elf_find_symbol(Head(mods).image, name) # NULL
      THEN elf_find_symbol(Head(mods).image, name)
    ELSE FindInModules_any_state(Tail(mods), name)

RECURSIVE FindInModules(_, _)
FindInModules(mods, name) ==
    IF mods = << >> THEN NULL
    ELSE IF Head(mods).state = MODULE_STATE_RUNNING
            /\ elf_find_symbol(Head(mods).image, name) # NULL
      THEN elf_find_symbol(Head(mods).image, name)
    ELSE FindInModules(Tail(mods), name)

\* kernel_symbol_lookup: built-in table, registered table, running modules.
kernel_symbol_lookup(mods, table, name) ==
    IF \E k \in 1..Len(builtin_symbols) : builtin_symbols[k] = name
      THEN KERNEL_TEXT + 16 * (CHOOSE k \in 1..Len(builtin_symbols) : builtin_symbols[k] = name)
    ELSE IF FindInTable(table, name) # NULL THEN FindInTable(table, name)
    ELSE FindInModules(mods, name)

module_find_symbol(mods, table, name) == kernel_symbol_lookup(mods, table, name)

\* module_find: index of the module of that name in the list (0: none).
module_find(mods, name) ==
    LET idx == {i \in 1..Len(mods) : mods[i].name = name}
    IN IF idx = {} THEN 0 ELSE CHOOSE i \in idx : \A j \in idx : i <= j

\* ------------------------------------------------- elf.c: relocations
\* A uint64_t or int64_t is the sequence of its eight bytes, lowest first;
\* memory at a relocation site is the sequence of the bytes from the
\* target address on.
R_X86_64_64 == 1
R_X86_64_PC32 == 2
R_X86_64_PLT32 == 4
R_X86_64_32 == 10
R_X86_64_32S == 11

VARIABLE
    rela    \* one entry of a SHT_RELA section with its resolved symbol, and the site it patches

\* The len lowest bytes of n >= 0.
RECURSIVE LE(_, _)
LE(n, len) == IF len = 0 THEN << >> ELSE <<n % 256>> \o LE(n \div 256, len - 1)

\* x + y + c in as many bytes as x has: the carry out of the last is lost.
RECURSIVE AddCarry(_, _, _)
AddCarry(x, y, c) ==
    IF x = << >> THEN << >>
    ELSE <<(x[1] + y[1] + c) % 256>> \o AddCarry(Tail(x), Tail(y), (x[1] + y[1] + c) \div 256)

\* uint64_t addition and subtraction.
Add64(x, y) == AddCarry(x, y, 0)
Sub64(x, y) == AddCarry(x, [i \in DOMAIN y |-> 255 - y[i]], 1)

\* The casts (int32_t) and (uint32_t) of a uint64_t, as the bytes stored.
Trunc32(x) == SubSeq(x, 1, 4)

\* A store of these bytes through the target pointer.
StoreAt(site, bytes) ==
    [i \in DOMAIN site |-> IF i <= Len(bytes) THEN bytes[i] ELSE site[i]]

\* The switch on rel_type with a 64-bit store in every case.
ApplyRela_wide(site, rel_type, sym_val, r_addend, target) ==
    IF rel_type = R_X86_64_64 \/ rel_type = R_X86_64_32 \/ rel_type = R_X86_64_32S
      THEN StoreAt(site, Add64(sym_val, r_addend))
    ELSE IF rel_type = R_X86_64_PC32 \/ rel_type = R_X86_64_PLT32
      THEN StoreAt(site, Sub64(Add64(sym_val, r_addend), target))
    ELSE site

\* The switch on rel_type of elf_load_module: the site afterwards.
ApplyRela(site, rel_type, sym_val, r_addend, target) ==
    IF rel_type = R_X86_64_64
      THEN StoreAt(site, Add64(sym_val, r_addend))
    ELSE IF rel_type = R_X86_64_PC32 \/ rel_type = R_X86_64_PLT32
      THEN StoreAt(site, Trunc32(Sub64(Add64(sym_val, r_addend), target)))
    ELSE IF rel_type = R_X86_64_32
      THEN StoreAt(site, Trunc32(Add64(sym_val, r_addend)))
    ELSE IF rel_type = R_X86_64_32S
      THEN StoreAt(site, Trunc32(Add64(sym_val, r_addend)))
    ELSE site

\* No relocation entry is being processed.
RelaInit ==
    rela = [rel_type |-> 0, sym_val |-> LE(0, 8), r_addend |-> LE(0, 8),
            target_base |-> LE(0, 8), r_offset |-> LE(0, 8),
            site |-> LE(0, 12), applied |-> FALSE, after |-> LE(0, 12)]

\* Symbol values: null, a built-in kernel symbol, a symbol of the image, a
\* kernel address in the upper half, the highest address.
SymVals ==
    {LE(0, 8), LE(KERNEL_TEXT + 16, 8), LE(HEAP_START + 3 * HEADER_SIZE, 8),
     <<0, 0, 16, 128, 255, 255, 255, 255>>, <<255, 255, 255, 255, 255, 255, 255, 255>>}

\* Addends: 0, 8, -4, 2^31 - 1, 2^31, 2^32 + 5, -2^63.
Addends ==
    {LE(0, 8), LE(8, 8), <<252, 255, 255, 255, 255, 255, 255, 255>>,
     LE(2147483647, 8), <<0, 0, 0, 128, 0, 0, 0, 0>>, <<5, 0, 0, 0, 1, 0, 0, 0>>,
     <<0, 0, 0, 0, 0, 0, 0, 128>>}

\* The relocation entries elf_load_module may meet, with the section's
\* runtime address and the bytes the section copy left at the site.
RelaInputs ==
    [rel_type : {0, R_X86_64_64, R_X86_64_PC32, R_X86_64_PLT32, R_X86_64_32, R_X86_64_32S},
     sym_val : SymVals, r_addend : Addends,
     target_base : {LE(HEAP_START + 2 * HEADER_SIZE, 8)},
     r_offset : {LE(0, 8), LE(4, 8), LE(52, 8)},
     site : {LE(0, 12), <<17, 34, 51, 68, 85, 102, 119, 136, 153, 170, 187, 204>>},
     applied : {FALSE}, after : {LE(0, 12)}]

\* One turn of the relocation loop, from the computed symbol value on.
ElfRelocate ==
    /\ ~rela.applied
    /\ rela' = [rela EXCEPT
                  !.applied = TRUE,
                  !.after = ApplyRela(rela.site, rela.rel_type, rela.sym_val, rela.r_addend,
                                      Add64(rela.target_base, rela.r_offset))]


\* ---------------------------------------------------------------------------
\* Interrupts: the IDT (idt.c), the handler table and the dispatchers (isr.c)
\* and the end-of-interrupt command of the 8259 PICs (i8259.c).
\* ---------------------------------------------------------------------------

PIC1_COMMAND == 32
PIC2_COMMAND == 160
PIC_EOI == 32

IDT_ENTRIES == 256
KERNEL_CS == 8
GATE_FLAGS == 142

\* idt: the 256 gate descriptors; interrupt_handlers: the dispatch table
\* (0 is a null function pointer); irq: the last call or dispatch, with the
\* port writes and handler calls it made, in order.
VARIABLES idt, interrupt_handlers, irq

intVars == <<idt, interrupt_handlers, irq>>

Vectors == 0..(IDT_ENTRIES - 1)

\* The registrable handler functions (addresses of C functions; never 0).
Handlers == {1, 2}

\* Address of the assembly stub isr<n> / irq<n-32>: a distinct non-null
\* function address per vector.
StubAddr(n) == 1048576 + 16 * n

Outb(port, val) == [op |-> "outb", port |-> port, val |-> val]
Call(handler, int_no) == [op |-> "call", port |-> int_no, val |-> handler]
Halt(int_no) == [op |-> "halt", port |-> int_no, val |-> 0]

NullGate ==
    [base_low |-> 0, base_mid |-> 0, base_high |-> 0, sel |-> 0, ist |-> 0,
     flags |-> 0, reserved |-> 0]

idt_set_gate(table, num, base, sel, flags) ==
    [table EXCEPT ![num] =
        [base_low |-> base % 65536,
         base_mid |-> (base \div 65536) % 65536,
         base_high |-> (base \div 65536) \div 65536,
         sel |-> sel, ist |-> 0, flags |-> flags, reserved |-> 0]]

idt_init == [n \in Vectors |-> NullGate]

RECURSIVE SetGates(_, _, _)
SetGates(table, n, last) ==
    IF n > last THEN table
    ELSE SetGates(idt_set_gate(table, n, StubAddr(n), KERNEL_CS, GATE_FLAGS), n + 1, last)

\* isr_init installs the exception stubs (0..31) and the IRQ stubs (32..47).
isr_init(table) == SetGates(table, 0, 47)

IntInit ==
    /\ idt = isr_init(idt_init)
    /\ interrupt_handlers = [n \in Vectors |-> 0]
    /\ irq = [name |-> "isr_init", int_no |-> 0, trace |-> <<>>, halted |-> FALSE]

i8259_send_eoi_master_first(pic) ==
    <<Outb(PIC1_COMMAND, PIC_EOI)>>
      \o (IF pic # 0 THEN <<Outb(PIC2_COMMAND, PIC_EOI)>> ELSE <<>>)

i8259_send_eoi(pic) ==
    (IF pic # 0 THEN <<Outb(PIC2_COMMAND, PIC_EOI)>> ELSE <<>>)
      \o <<Outb(PIC1_COMMAND, PIC_EOI)>>

irq_handler_late_eoi(table, int_no) ==
    (IF table[int_no] # 0 THEN <<Call(table[int_no], int_no)>> ELSE <<>>)
      \o (IF int_no >= 40 THEN i8259_send_eoi(1) ELSE <<>>)
      \o i8259_send_eoi(0)

\* irq_handler: EOI to the slave when the vector is >= 40, EOI to the master,
\* then the registered handler, if any.
irq_handler(table, int_no) ==
    (IF int_no >= 40 THEN i8259_send_eoi(1) ELSE <<>>)
      \o i8259_send_eoi(0)
      \o (IF table[int_no] # 0 THEN <<Call(table[int_no], int_no)>> ELSE <<>>)

\* isr_handler: the registered handler, or a message and an endless loop.
isr_handler(table, int_no) ==
    IF table[int_no] # 0 THEN <<Call(table[int_no], int_no)>> ELSE <<Halt(int_no)>>

register_interrupt_handler_gate(table, gates, n, handler) ==
    [handlers |-> [table EXCEPT ![n] = handler],
     gates |-> idt_set_gate(gates, n, handler, KERNEL_CS, GATE_FLAGS)]

register_interrupt_handler(table, gates, n, handler) ==
    [handlers |-> [table EXCEPT ![n] = handler], gates |-> gates]

RegisterInterruptHandler(n, handler) ==
    LET r == register_interrupt_handler(interrupt_handlers, idt, n, handler) IN
    /\ ~irq.halted
    /\ interrupt_handlers' = r.handlers
    /\ idt' = r.gates
    /\ irq' = [name |-> "register_interrupt_handler", int_no |-> n, trace |-> <<>>,
               halted |-> FALSE]

IrqHandler(int_no) ==
    /\ ~irq.halted
    /\ irq' = [name |-> "irq_handler", int_no |-> int_no,
               trace |-> irq_handler(interrupt_handlers, int_no), halted |-> FALSE]
    /\ UNCHANGED <<idt, interrupt_handlers>>

IsrHandler(int_no) ==
    LET t == isr_handler(interrupt_handlers, int_no) IN
    /\ ~irq.halted
    /\ irq' = [name |-> "isr_handler", int_no |-> int_no, trace |-> t,
               halted |-> t[Len(t)].op = "halt"]
    /\ UNCHANGED <<idt, interrupt_handlers>>

\* ---------------------------------------------------------------------------
\* elf.c: elf_load_executable, and the ELF files handed to the loaders.
\* ---------------------------------------------------------------------------
SIZEOF_Elf64_Ehdr == 64
ET_DYN == 3
PT_LOAD == 1

\* elf: the last call of elf.c's entry points: [name, hdr, ret, base].
VARIABLE elf

Phdr(type, vaddr, memsz) == [p_type |-> type, p_vaddr |-> vaddr, p_memsz |-> memsz]

\* The section headers elf_load_executable reads: type, size and sh_link.
XShdr(type, size, link) == [sh_type |-> type, sh_size |-> size, sh_link |-> link]

LoadSegs(obj) == {i \in 1..Len(obj.phdrs) : obj.phdrs[i].p_type = PT_LOAD}

\* min_addr and max_addr of the first loop (lines 92-106).
MinAddr(obj) ==
    LET a == {obj.phdrs[i].p_vaddr : i \in LoadSegs(obj)}
    IN CHOOSE x \in a : \A y \in a : x <= y

MaxAddr(obj) ==
    LET a == {obj.phdrs[i].p_vaddr + obj.phdrs[i].p_memsz : i \in LoadSegs(obj)} \cup {0}
    IN CHOOSE x \in a : \A y \in a : y <= x

SymtabIdx(obj) == {i \in 1..Len(obj.xsections) : obj.xsections[i].sh_type = SHT_SYMTAB}

ExecImage(base, size, symtab, strtab, nsyms) ==
    [NoImage EXCEPT !.base = base, !.size = size, !.symtab = symtab,
                    !.strtab = strtab, !.num_symbols = nsyms]

\* elf_load_executable, the string table copy: a3 is its allocation.
ExecLoadStrtab(base, size, symtab, nsyms, a3) ==
    IF a3.hang THEN ElfResult(ELF_OK, a3.heap, NoImage, TRUE)
    ELSE ElfResult(ELF_OK, a3.heap, ExecImage(base, size, symtab, a3.ptr, nsyms), FALSE)

\* elf_load_executable, the symbol table copy of the first SHT_SYMTAB
\* section: a2 is its allocation (a failure there is not an error).
ExecLoadSymtab(base, size, shdr, a2, obj) ==
    IF a2.hang THEN ElfResult(ELF_OK, a2.heap, NoImage, TRUE)
    ELSE IF a2.ptr = NULL
      THEN ElfResult(ELF_OK, a2.heap, ExecImage(base, size, NULL, NULL, 0), FALSE)
    ELSE ExecLoadStrtab(base, size, a2.ptr, shdr.sh_size \div SIZEOF_Elf64_Sym,
                        kmalloc(a2.heap, obj.xsections[shdr.sh_link + 1].sh_size))

\* elf_load_executable once the image buffer has been asked for (a1).
ExecLoadBase(a1, size, obj) ==
    IF a1.hang THEN ElfResult(ELF_OK, a1.heap, NoImage, TRUE)
    ELSE IF a1.ptr = NULL THEN ElfResult(ELF_ERR_NOMEM, a1.heap, NoImage, FALSE)
    ELSE IF SymtabIdx(obj) = {}
      THEN ElfResult(ELF_OK, Memset0(a1.heap, a1.ptr, size),
                     ExecImage(a1.ptr, size, NULL, NULL, 0), FALSE)
    ELSE LET shdr == obj.xsections[CHOOSE i \in SymtabIdx(obj) :
                                       \A j \in SymtabIdx(obj) : i <= j]
         IN ExecLoadSymtab(a1.ptr, size, shdr,
                           kmalloc(Memset0(a1.heap, a1.ptr, size), shdr.sh_size), obj)

elf_load_executable_any_type(h, obj) ==
    IF elf_validate(obj) # ELF_OK THEN ElfResult(elf_validate(obj), h, NoImage, FALSE)
    ELSE IF LoadSegs(obj) = {} THEN ElfResult(ELF_ERR_INVALID, h, NoImage, FALSE)
    ELSE ExecLoadBase(kmalloc(h, MaxAddr(obj) - MinAddr(obj)),
                      MaxAddr(obj) - MinAddr(obj), obj)

\* elf_load_executable as a function of the heap.
elf_load_executable(h, obj) ==
    IF elf_validate(obj) # ELF_OK THEN ElfResult(elf_validate(obj), h, NoImage, FALSE)
    ELSE IF obj.e_type # ET_EXEC /\ obj.e_type # ET_DYN
      THEN ElfResult(ELF_ERR_UNSUPPORTED, h, NoImage, FALSE)
    ELSE IF LoadSegs(obj) = {} THEN ElfResult(ELF_ERR_INVALID, h, NoImage, FALSE)
    ELSE ExecLoadBase(kmalloc(h, MaxAddr(obj) - MinAddr(obj)),
                      MaxAddr(obj) - MinAddr(obj), obj)

\* The fields of the ELF header the checks read, and the length of the input.
Ehdr(obj) ==
    [size |-> obj.size, magic |-> obj.magic, ei_class |-> obj.ei_class,
     ei_data |-> obj.ei_data, e_machine |-> obj.e_machine, e_type |-> obj.e_type]

\* An ELF file of `size` bytes with the given header fields and program
\* headers: the body is that of the object "alpha", with the section headers
\* of an executable's symbol and string table added.
ElfBody ==
    ObjFile("alpha", << Sym("", 0, 0), Sym("module_init", 1, 0),
                        Sym("module_cleanup", 1, 16), Sym("a_func", 1, 32) >>,
            << 3 >>, 0)

ElfFile(size, magic, class, data, machine, type, phdrs) ==
    [name |-> "alpha", size_ok |-> size >= SIZEOF_Elf64_Ehdr, size |-> size,
     magic |-> magic, ei_class |-> class, ei_data |-> data, e_machine |-> machine,
     e_type |-> type, e_shstrndx |-> ElfBody.e_shstrndx, sections |-> ElfBody.sections,
     symtab |-> ElfBody.symtab, relas |-> ElfBody.relas, initRet |-> 0,
     phdrs |-> phdrs,
     xsections |-> << XShdr(SHT_NULL, 0, 0), XShdr(SHT_SYMTAB, 48, 2),
                      XShdr(SHT_STRTAB, 40, 0) >>]

\* Files with every combination of header defects: inputs shorter than a
\* header, a wrong magic, ELFCLASS32, ELFDATA2MSB, EM_386 and the types
\* ET_NONE .. ET_CORE, with and without PT_LOAD segments.
ElfFiles ==
    { ElfFile(size, magic, class, data, machine, type, phdrs) :
        size \in {0, SIZEOF_Elf64_Ehdr - 1, SIZEOF_Elf64_Ehdr, 4096},
        magic \in {ELF_MAGIC, ZERO_MAGIC},
        class \in {1, ELFCLASS64}, data \in {ELFDATA2LSB, 2},
        machine \in {3, EM_X86_64}, type \in 0..4,
        phdrs \in { << Phdr(4, 0, 0) >>,
                    << Phdr(PT_LOAD, 4096, 64), Phdr(PT_LOAD, 4224, 128) >> } }

ElfState(file) == elf = [name |-> "", file |-> file, ret |-> 0, base |-> NULL]

ElfInit ==
    ElfState(ElfFile(4096, ELF_MAGIC, ELFCLASS64, ELFDATA2LSB, EM_X86_64, ET_REL,
                     << Phdr(4, 0, 0) >>))

ElfValidate ==
    /\ ~hung
    /\ mcalls' = mcalls + 1
    /\ elf' = [elf EXCEPT !.name = "elf_validate", !.ret = elf_validate(elf.file),
                          !.base = NULL]
    /\ UNCHANGED <<heapVars, loaded_modules, module_count, kernel_symbols,
                   elf_kernel_symbols, mop>>

ElfLoadExecutable ==
    LET r == elf_load_executable(heap, elf.file) IN
    /\ ~hung
    /\ mcalls' = mcalls + 1
    /\ heap' = r.heap
    /\ hung' = r.hang
    /\ elf' = [elf EXCEPT !.name = "elf_load_executable", !.ret = r.rc,
                          !.base = r.image.base]
    /\ UNCHANGED <<live, calls, op, loaded_modules, module_count, kernel_symbols,
                   elf_kernel_symbols, mop>>

ElfLoadModule ==
    LET r == elf_load_module(heap, elf.file, elf_kernel_symbols) IN
    /\ ~hung
    /\ mcalls' = mcalls + 1
    /\ heap' = r.heap
    /\ hung' = r.hang
    /\ elf' = [elf EXCEPT !.name = "elf_load_module", !.ret = r.rc,
                          !.base = r.image.base]
    /\ UNCHANGED <<live, calls, op, loaded_modules, module_count, kernel_symbols,
                   elf_kernel_symbols, mop>>

\* ------------------------------------------------- heap.c, the other calls
\* kcalloc: kmalloc of count * size (no overflow check) and zeroing.
\* A total of 2^63 or more (a negative residue) sends the zeroing loop over
\* the rest of the arena and the memory behind it: the call does not return.
KcallocZero(a, total) ==
    IF a.hang \/ a.ptr = NULL THEN a
    ELSE IF total < 0
      THEN KmallocResult(Memset0(a.heap, a.ptr, HEAP_END - a.ptr), a.ptr, TRUE)
    ELSE KmallocResult(Memset0(a.heap, a.ptr, total), a.ptr, FALSE)

kcalloc(h, count, size) == KcallocZero(kmalloc(h, count * size), count * size)

\* krealloc once the new block has been asked for (a): free the old one.
KreallocMove(ptr, a) ==
    IF a.hang \/ a.ptr = NULL THEN a
    ELSE KmallocResult(kfree(a.heap, ptr), a.ptr, FALSE)

krealloc(h, ptr, new_size) ==
    IF ptr = NULL THEN kmalloc(h, new_size)
    ELSE IF new_size = 0
      THEN KmallocResult(IF IsBlockPtr(h, ptr) THEN kfree(h, ptr) ELSE h, NULL, FALSE)
    ELSE IF ~IsBlockPtr(h, ptr) \/ h.mem[ptr - HEADER_SIZE].flags # BLOCK_USED
      THEN KmallocResult(h, NULL, FALSE)
    ELSE IF ~ULt(h.mem[ptr - HEADER_SIZE].size, new_size)
      THEN KmallocResult(h, ptr, FALSE)
    ELSE KreallocMove(ptr, kmalloc(h, new_size))

\* ------------------------------------------- syscall.c, linux_syscall.c
MAX_SYSCALL == 64
LINUX_MAX_SYSCALL == 512
MAX_FDS == 16
FD_TYPE_CLOSED == 0
FD_TYPE_CONSOLE == 1
STDIN_FILENO == 0
STDOUT_FILENO == 1
STDERR_FILENO == 2
TIOCGWINSZ == 21523
MAP_ANONYMOUS == 32
MAP_FAILED == -1
PROGRAM_BREAK_MAX == 16777216
\* A table slot holding no handler (the null function pointer).
NoHandler == ""

VARIABLES
    linux_abi_mode,           \* syscall.c: the Linux ABI flag
    syscall_table,            \* syscall.c: native handlers by number
    linux_syscall_table,      \* linux_syscall.c: Linux handlers by number
    fd_table,                 \* linux_syscall.c: descriptor table
    program_break,            \* linux_syscall.c
    current_program_running,  \* syscall.c
    program_exit_code,        \* syscall.c
    console_out,              \* calls made into the console so far
    rax,                      \* the result register of the last syscall
    scalls,                   \* syscall-layer calls made so far
    sop                       \* the last syscall-layer call

sysVars == <<linux_abi_mode, syscall_table, linux_syscall_table, fd_table,
             program_break, current_program_running, program_exit_code,
             console_out, rax, scalls, sop>>

\* syscall_init: the native table after the registrations.
syscall_init ==
    [n \in 0..(MAX_SYSCALL - 1) |->
        CASE n = 0 -> "sys_exit"       [] n = 1 -> "sys_print"
          [] n = 2 -> "sys_getkey"     [] n = 3 -> "sys_kbhit"
          [] n = 4 -> "sys_malloc"     [] n = 5 -> "sys_free"
          [] n = 6 -> "sys_sleep"      [] n = 7 -> "sys_getpid"
          [] n = 10 -> "sys_putpixel"  [] n = 11 -> "sys_getpixel"
          [] n = 12 -> "sys_clear"     [] n = 13 -> "sys_getwidth"
          [] n = 14 -> "sys_getheight" [] n = 18 -> "sys_drawtext"
          [] n = 19 -> "sys_getfb"     [] n = 40 -> "sys_meminfo"
          [] n = 41 -> "sys_realloc"   [] n = 42 -> "sys_calloc"
          [] OTHER -> NoHandler]

\* linux_syscall_init: the Linux table after the registrations.
linux_syscall_init ==
    [n \in 0..(LINUX_MAX_SYSCALL - 1) |->
        CASE n = 0 -> "linux_sys_read"       [] n = 1 -> "linux_sys_write"
          [] n = 2 -> "linux_sys_open"       [] n = 3 -> "linux_sys_close"
          [] n = 5 -> "linux_sys_fstat"      [] n = 9 -> "linux_sys_mmap"
          [] n = 11 -> "linux_sys_munmap"    [] n = 12 -> "linux_sys_brk"
          [] n = 16 -> "linux_sys_ioctl"     [] n = 35 -> "linux_sys_nanosleep"
          [] n = 39 -> "linux_sys_getpid"    [] n = 60 -> "linux_sys_exit"
          [] n = 63 -> "linux_sys_uname"     [] n = 79 -> "linux_sys_getcwd"
          [] n = 99 -> "linux_sys_sysinfo"   [] n = 102 -> "linux_sys_getuid"
          [] n = 104 -> "linux_sys_getgid"   [] n = 107 -> "linux_sys_geteuid"
          [] n = 108 -> "linux_sys_getegid"  [] n = 110 -> "linux_sys_getppid"
          [] n = 158 -> "linux_sys_arch_prctl"
          [] n = 228 -> "linux_sys_clock_gettime"
          [] n = 231 -> "linux_sys_exit_group"
          [] n = 318 -> "linux_sys_getrandom"
          [] OTHER -> NoHandler]

\* init_fd_table: descriptors 0..2 are the console, the rest closed.
init_fd_table ==
    [fd \in 0..(MAX_FDS - 1) |->
        IF fd <= STDERR_FILENO
          THEN [in_use |-> 1, type |-> FD_TYPE_CONSOLE, pos |-> 0]
          ELSE [in_use |-> 0, type |-> FD_TYPE_CLOSED, pos |-> 0]]

is_valid_fd(fdt, fd) == fd >= 0 /\ fd < MAX_FDS /\ fdt[fd].in_use # 0

\* The outcome of an allocating handler: the heap after it and the pointer
\* (or, for mmap, MAP_FAILED) in the result register.
WithAlloc(k, a, failed) ==
    [k EXCEPT !.heap = a.heap, !.hang = a.hang,
              !.ret = IF a.ptr = NULL THEN failed ELSE a.ptr]

WithFree(k, ptr) ==
    [k EXCEPT !.heap = IF IsBlockPtr(k.heap, ptr) THEN kfree(k.heap, ptr) ELSE k.heap,
              !.ret = 0]

\* The handlers whose first argument is a file descriptor.
FdHandlers == {"linux_sys_read", "linux_sys_write", "linux_sys_close",
               "linux_sys_fstat", "linux_sys_ioctl"}

\* The descriptor argument is the 64-bit register rdi: a1 is its low half
\* as an int, which is what the cast (int)fd yields, and k.rdi_hi its high
\* half.  The handlers compare the whole register with the constants.
FdEq(k, a1, n) == k.rdi_hi = 0 /\ a1 = n
FdLe(k, a1, n) == k.rdi_hi = 0 /\ a1 >= 0 /\ a1 <= n

\* linux_sys_read on the keyboard: the user types k.keys characters and a
\* newline; the loop stores and echoes characters until count are read or
\* the newline has been stored.
KeysRead(k, count) ==
    IF count = 0 THEN 0
    ELSE IF ULt(count, k.keys + 1) THEN count ELSE k.keys + 1

linux_sys_brk_any_addr(k, addr) ==
    IF addr # 0
      THEN [k EXCEPT !.program_break = addr, !.ret = addr]
      ELSE [k EXCEPT !.ret = k.program_break]

\* linux_sys_brk: the break moves to addr when addr is at or above it and
\* below PROGRAM_BREAK_MAX; the answer is the break after the call.
linux_sys_brk(k, addr) ==
    IF addr # 0 /\ UGe(addr, k.program_break) /\ ULt(addr, PROGRAM_BREAK_MAX)
      THEN [k EXCEPT !.program_break = addr, !.ret = addr]
      ELSE [k EXCEPT !.ret = k.program_break]

\* The handlers, by name, as functions of the kernel state k they can
\* reach: heap, descriptor table, program break, program state, console.
\* A handler's stores through user pointers land in user memory.  The
\* store of linux_sys_close into a table entry beyond the table's end hits
\* an unmapped page (k.fault: the page-fault handler halts) or memory that
\* is not part of this model.
CallHandler(name, k, a1, a2, a3, a4, a5) ==
    CASE name = "sys_exit" ->
           [k EXCEPT !.exit_code = a1, !.running = 0, !.out = @ + 3, !.ret = 0]
      [] name = "sys_print" ->
           [k EXCEPT !.out = @ + (IF a1 = 0 THEN 0 ELSE UserStrLen), !.ret = 0]
      [] name = "sys_malloc" -> WithAlloc(k, kmalloc(k.heap, a1), NULL)
      [] name = "sys_free" -> WithFree(k, a1)
      [] name = "sys_getpid" -> [k EXCEPT !.ret = 1]
      [] name = "sys_meminfo" ->
           [k EXCEPT !.hang = heap_get_stats(k.heap).hang,
                     !.ret = HEAP_SIZE - k.heap.total_allocated
                               - k.heap.num_allocations * HEADER_SIZE]
      [] name = "sys_realloc" -> WithAlloc(k, krealloc(k.heap, a1, a2), NULL)
      [] name = "sys_calloc" -> WithAlloc(k, kcalloc(k.heap, a1, a2), NULL)
      [] name = "linux_sys_read" ->
           IF ~is_valid_fd(k.fd_table, a1) THEN [k EXCEPT !.ret = -9]
           ELSE IF FdEq(k, a1, STDIN_FILENO)
             THEN [k EXCEPT !.out = @ + KeysRead(k, a3), !.ret = KeysRead(k, a3)]
           ELSE [k EXCEPT !.ret = -9]
      [] name = "linux_sys_write" ->
           IF ~is_valid_fd(k.fd_table, a1) THEN [k EXCEPT !.ret = -9]
           ELSE IF FdEq(k, a1, STDOUT_FILENO) \/ FdEq(k, a1, STDERR_FILENO)
             THEN [k EXCEPT !.out = @ + a3, !.ret = a3]
           ELSE [k EXCEPT !.ret = -9]
      [] name = "linux_sys_open" -> [k EXCEPT !.ret = -2]
      [] name = "linux_sys_close" ->
           IF ~is_valid_fd(k.fd_table, a1) THEN [k EXCEPT !.ret = -9]
           ELSE IF FdLe(k, a1, STDERR_FILENO) THEN [k EXCEPT !.ret = 0]
           ELSE IF k.rdi_hi = 0
             THEN [k EXCEPT !.fd_table[a1].in_use = 0,
                            !.fd_table[a1].type = FD_TYPE_CLOSED, !.ret = 0]
           ELSE [k EXCEPT !.hang = k.fault, !.ret = 0]
      [] name = "linux_sys_fstat" ->
           IF ~is_valid_fd(k.fd_table, a1) THEN [k EXCEPT !.ret = -9]
           ELSE [k EXCEPT !.ret = 0]
      [] name = "linux_sys_ioctl" ->
           IF ~is_valid_fd(k.fd_table, a1) THEN [k EXCEPT !.ret = -9]
           ELSE IF a2 = TIOCGWINSZ THEN [k EXCEPT !.ret = 0]
           ELSE [k EXCEPT !.ret = -25]
      [] name = "linux_sys_mmap" ->
           IF (a4 \div MAP_ANONYMOUS) % 2 = 0 /\ a5 >= 0
             THEN [k EXCEPT !.ret = MAP_FAILED]
             ELSE WithAlloc(k, kcalloc(k.heap, 1, a2), MAP_FAILED)
      [] name = "linux_sys_munmap" -> WithFree(k, a1)
      [] name = "linux_sys_brk" -> linux_sys_brk(k, a1)
      [] name = "linux_sys_getpid" -> [k EXCEPT !.ret = 1]
      [] name = "linux_sys_exit" -> [k EXCEPT !.out = @ + 3, !.ret = 0]
      [] name = "linux_sys_uname" -> [k EXCEPT !.ret = 0]
      [] name = "linux_sys_getuid" -> [k EXCEPT !.ret = 0]
      \* The other handlers read a device (keyboard, framebuffer, timer).
      [] OTHER -> [k EXCEPT !.ret = 0]

\* linux_syscall_handler answering an unimplemented number ENOSYS without
\* the minus sign.
linux_syscall_handler_positive_errno(k, ltable, num, a1, a2, a3, a4, a5) ==
    IF UGe(num, LINUX_MAX_SYSCALL) \/ ltable[num] = NoHandler
      THEN [k EXCEPT !.out = @ + 3, !.ret = 38]
      ELSE CallHandler(ltable[num], [k EXCEPT !.handler = ltable[num]], a1, a2, a3, a4, a5)

\* linux_syscall_handler: an unimplemented number is logged (three console
\* calls) and answered -ENOSYS.
linux_syscall_handler(k, ltable, num, a1, a2, a3, a4, a5) ==
    IF UGe(num, LINUX_MAX_SYSCALL) \/ ltable[num] = NoHandler
      THEN [k EXCEPT !.out = @ + 3, !.ret = -38]
      ELSE CallHandler(ltable[num], [k EXCEPT !.handler = ltable[num]], a1, a2, a3, a4, a5)

\* syscall_handler routing by the number as well: only numbers of the Linux
\* range (0-329) go to the Linux table.
syscall_handler_by_range(k, mode, table, ltable, num, a1, a2, a3, a4, a5) ==
    IF mode # 0 /\ ~UGe(num, 330)
      THEN linux_syscall_handler([k EXCEPT !.table = "linux"], ltable, num, a1, a2, a3, a4, a5)
    ELSE IF UGe(num, MAX_SYSCALL) \/ table[num] = NoHandler
      THEN [k EXCEPT !.table = "native", !.ret = -1]
    ELSE CallHandler(table[num], [k EXCEPT !.table = "native", !.handler = table[num]],
                     a1, a2, a3, a4, a5)

\* syscall_handler: the flag alone picks the table.
syscall_handler(k, mode, table, ltable, num, a1, a2, a3, a4, a5) ==
    IF mode # 0
      THEN linux_syscall_handler([k EXCEPT !.table = "linux"], ltable, num, a1, a2, a3, a4, a5)
    ELSE IF UGe(num, MAX_SYSCALL) \/ table[num] = NoHandler
      THEN [k EXCEPT !.table = "native", !.ret = -1]
    ELSE CallHandler(table[num], [k EXCEPT !.table = "native", !.handler = table[num]],
                     a1, a2, a3, a4, a5)

\* ------------------------------------------------------ vfs.h, device.h
VFS_MAX_FILESYSTEMS == 16
VFS_MAX_MOUNTS == 32
VFS_TYPE_DIR == 2
VFS_TYPE_CHARDEV == 3
VFS_TYPE_BLOCKDEV == 4
VFS_O_CREAT == 64
VFS_O_TRUNC == 512
VFS_O_APPEND == 1024
DEV_TYPE_UNKNOWN == 0
DEV_TYPE_CHAR == 1
DEV_TYPE_BLOCK == 2
MAX_DEVICES == 128
MAX_DRIVERS == 64
SIZEOF_VfsNode == 184
SIZEOF_VfsFile == 40
SIZEOF_VfsMount == 552
SIZEOF_Device == 144

\* ---------------------------------------------------- vfs.c, device.c
\* A path is the sequence of its tokens: "/" and the components between
\* slashes, so "/dev/tty0" is <<"/", "dev", "/", "tty0">>.  A pointer to a
\* VfsFileOps or DeviceOps table is the set of the hooks the table fills in
\* (the null pointer and a table of null hooks are both {}).
VARIABLES
    objects,        \* the structs vfs.c and device.c keep on the heap, by payload address
    root_node,      \* vfs.c
    mounts,         \* vfs.c: mounts[0 .. num_mounts - 1]
    registered_fs,  \* vfs.c: registered_fs[0 .. num_filesystems - 1]
    device_list,    \* device.c: the registry, head first (device_count is its length)
    devfs_root,     \* device.c
    driver_list,    \* device.c: the driver registry, head first (driver_count is its length)
    undefined,      \* TRUE once a struct was used through memory that no longer holds it
    file_handles,   \* VfsFile pointers callers hold: returned by vfs_open, not yet closed
    dev_handles,    \* Device pointers callers hold: returned by device_create, not yet destroyed
    vcalls,         \* VFS and device manager calls made so far
    vop             \* the last such call

vfsVars == <<objects, root_node, mounts, registered_fs, device_list, devfs_root, driver_list,
             undefined, file_handles, dev_handles, vcalls, vop>>

devfs_file_ops == {"read", "write", "ioctl", "open", "close"}
devfs_type == [name |-> "devfs", mount |-> "devfs_mount", unmount |-> "devfs_unmount"]

SizeOf(o) ==
    CASE o.kind = "node" -> SIZEOF_VfsNode
      [] o.kind = "file" -> SIZEOF_VfsFile
      [] o.kind = "mount" -> SIZEOF_VfsMount
      [] o.kind = "device" -> SIZEOF_Device

\* p points at memory that holds a struct of this kind (in use, or freed
\* and not yet written over).
Valid(obj, p, kind) == p \in DOMAIN obj /\ obj[p].kind = kind

\* kmalloc followed by memset and the field assignments: a is kmalloc's
\* answer, rec the struct that the n bytes at a.ptr hold afterwards.  A
\* struct whose bytes the new payload covers is gone; when that struct was
\* still in use, or the payload ends beyond the arena, the state is undefined.
Place(k, a, n, rec) ==
    IF a.hang THEN [k EXCEPT !.heap = a.heap, !.hang = TRUE, !.res = NULL]
    ELSE IF a.ptr = NULL THEN [k EXCEPT !.heap = a.heap, !.res = NULL]
    ELSE [k EXCEPT
            !.heap = Memset0(a.heap, a.ptr, n),
            !.obj = [q \in {q \in DOMAIN k.obj :
                              q + SizeOf(k.obj[q]) <= a.ptr \/ a.ptr + n <= q} \cup {a.ptr}
                       |-> IF q = a.ptr THEN rec ELSE k.obj[q]],
            !.undef = \/ k.undef
                      \/ a.ptr + n > HEAP_END
                      \/ \E q \in DOMAIN k.obj :
                            /\ k.obj[q].alive
                            /\ q < a.ptr + n /\ a.ptr < q + SizeOf(k.obj[q]),
            !.res = a.ptr]

vfs_create_node(k, name, type) ==
    Place(k, kmalloc(k.heap, SIZEOF_VfsNode), SIZEOF_VfsNode,
          [kind |-> "node", alive |-> TRUE, name |-> name, type |-> type,
           permissions |-> 0, size |-> 0, dev_major |-> 0, dev_minor |-> 0,
           ops |-> {}, private_data |-> NULL, parent |-> NULL, children |-> NULL,
           next |-> NULL, ref_count |-> 1, mount |-> NULL])

vfs_add_child(obj, parent, child) ==
    IF parent = NULL \/ child = NULL THEN obj
    ELSE IF obj[parent].type # VFS_TYPE_DIR THEN obj
    ELSE [obj EXCEPT ![child].parent = parent,
                     ![child].next = obj[parent].children,
                     ![parent].children = child]

\* The loop of vfs_remove_child; pp is &parent->children when prev is NULL
\* and &prev->next otherwise.
RECURSIVE RemoveWalk(_, _, _, _)
RemoveWalk(obj, parent, prev, child) ==
    LET cur == IF prev = NULL THEN obj[parent].children ELSE obj[prev].next
    IN IF cur = NULL THEN obj
       ELSE IF cur = child
         THEN [(IF prev = NULL THEN [obj EXCEPT ![parent].children = obj[child].next]
                               ELSE [obj EXCEPT ![prev].next = obj[child].next])
                 EXCEPT ![child].next = NULL, ![child].parent = NULL]
       ELSE RemoveWalk(obj, parent, cur, child)

vfs_remove_child(obj, parent, child) ==
    IF parent = NULL \/ child = NULL THEN obj
    ELSE RemoveWalk(obj, parent, NULL, child)

\* vfs_node_unref, with vfs_destroy_node.
vfs_node_unref(k, node) ==
    IF node = NULL THEN k
    ELSE IF ~Valid(k.obj, node, "node") THEN [k EXCEPT !.undef = TRUE]
    ELSE IF k.obj[node].ref_count - 1 <= 0
      THEN [k EXCEPT !.obj[node].ref_count = @ - 1, !.obj[node].alive = FALSE,
                     !.heap = kfree(@, node)]
    ELSE [k EXCEPT !.obj[node].ref_count = @ - 1]

vfs_file_unref(k, file) ==
    IF file = NULL THEN k
    ELSE IF k.obj[file].ref_count - 1 <= 0
      THEN [vfs_node_unref([k EXCEPT !.obj[file].ref_count = @ - 1], k.obj[file].node)
              EXCEPT !.heap = kfree(@, file), !.obj[file].alive = FALSE]
    ELSE [k EXCEPT !.obj[file].ref_count = @ - 1]

\* The child list walk of vfs_lookup.
RECURSIVE FindChild(_, _, _)
FindChild(obj, c, name) ==
    IF c = NULL THEN NULL
    ELSE IF obj[c].name = name THEN c
    ELSE FindChild(obj, obj[c].next, name)

\* The loop without the step into a mount's root.
RECURSIVE LookupWalk_no_mount(_, _, _)
LookupWalk_no_mount(obj, current, p) ==
    IF p = <<>> THEN current
    ELSE IF Head(p) \in {"/", "."} THEN LookupWalk_no_mount(obj, current, Tail(p))
    ELSE IF Head(p) = ".."
      THEN LookupWalk_no_mount(obj, IF obj[current].parent # NULL THEN obj[current].parent
                                                                  ELSE current, Tail(p))
    ELSE IF FindChild(obj, obj[current].children, Head(p)) = NULL THEN NULL
    ELSE LookupWalk_no_mount(obj, FindChild(obj, obj[current].children, Head(p)), Tail(p))

\* The component loop of vfs_lookup over the tokens p still to read.  No
\* VfsFileOps table of the kernel has a lookup hook, so a component is
\* always searched in the children list.
RECURSIVE LookupWalk(_, _, _)
LookupWalk(obj, current, p) ==
    IF p = <<>> THEN current
    ELSE IF Head(p) \in {"/", "."} THEN LookupWalk(obj, current, Tail(p))
    ELSE IF Head(p) = ".."
      THEN LookupWalk(obj, IF obj[current].parent # NULL THEN obj[current].parent
                                                         ELSE current, Tail(p))
    ELSE LET dir == IF obj[current].mount # NULL THEN obj[obj[current].mount].root
                                                 ELSE current
             child == FindChild(obj, obj[dir].children, Head(p))
         IN IF child = NULL THEN NULL ELSE LookupWalk(obj, child, Tail(p))

vfs_lookup(obj, root, path) ==
    IF path = <<>> \/ root = NULL THEN NULL
    ELSE IF Head(path) # "/" THEN NULL
    ELSE LookupWalk(obj, root, Tail(path))

\* find_filesystem: the index of the first entry of that name, 0 for NULL.
find_filesystem(fss, name) ==
    LET S == {i \in 1..Len(fss) : fss[i].name = name}
    IN IF S = {} THEN 0 ELSE CHOOSE i \in S : \A j \in S : i <= j

\* devfs_mount, after its vfs_create_node when devfs_root was NULL.
DevfsMountRoot(k1, mount) ==
    IF k1.res = NULL THEN [k1 EXCEPT !.ret = -1]
    ELSE [k1 EXCEPT !.devfs_root = k1.res, !.obj[k1.res].permissions = 493,
                    !.obj[mount].root = k1.res, !.ret = 0]

devfs_mount(k, mount) ==
    IF k.devfs_root = NULL
      THEN DevfsMountRoot(vfs_create_node(k, "dev", VFS_TYPE_DIR), mount)
      ELSE [k EXCEPT !.obj[mount].root = k.devfs_root, !.ret = 0]

\* vfs_mount from the filesystem's mount call on; k2 is the state it left.
\* devfs is the only filesystem type of the kernel.
MountLink(k2, mount) ==
    IF k2.hang THEN k2
    ELSE IF k2.ret # 0
      THEN [k2 EXCEPT !.heap = kfree(@, mount), !.obj[mount].alive = FALSE, !.res = NULL]
    ELSE [k2 EXCEPT !.obj[k2.obj[mount].mount_point].mount = mount,
                    !.mounts = Append(@, mount), !.ret = 0, !.res = mount]

\* vfs_mount after the allocation of the VfsMount.
MountAlloc(k1) ==
    IF k1.res = NULL THEN [k1 EXCEPT !.ret = -4]
    ELSE MountLink(devfs_mount(k1, k1.res), k1.res)

vfs_mount(k, target, fstype) ==
    IF Len(k.mounts) >= VFS_MAX_MOUNTS THEN [k EXCEPT !.ret = -1]
    ELSE IF find_filesystem(k.registered_fs, fstype) = 0 THEN [k EXCEPT !.ret = -2]
    ELSE IF vfs_lookup(k.obj, k.root_node, target) = NULL THEN [k EXCEPT !.ret = -3]
    ELSE MountAlloc(Place(k, kmalloc(k.heap, SIZEOF_VfsMount), SIZEOF_VfsMount,
                          [kind |-> "mount", alive |-> TRUE,
                           fs |-> k.registered_fs[find_filesystem(k.registered_fs, fstype)],
                           root |-> NULL,
                           mount_point |-> vfs_lookup(k.obj, k.root_node, target),
                           path |-> target, flags |-> 0]))

\* vfs_unmount once mounts[i] is the first entry whose path is the target.
UnmountEntry(k, i, mp) ==
    [k EXCEPT !.obj = [(IF mp # NULL /\ Valid(k.obj, mp, "node")
                          THEN [k.obj EXCEPT ![mp].mount = NULL] ELSE k.obj)
                         EXCEPT ![k.mounts[i]].alive = FALSE],
              !.undef = @ \/ (mp # NULL /\ ~Valid(k.obj, mp, "node")),
              !.mounts = [j \in 1..(Len(k.mounts) - 1) |->
                              IF j < i THEN k.mounts[j] ELSE k.mounts[j + 1]],
              !.heap = kfree(@, k.mounts[i]),
              !.ret = 0]

vfs_unmount(k, target) ==
    LET S == {i \in 1..Len(k.mounts) : k.obj[k.mounts[i]].path = target}
    IN IF S = {} THEN [k EXCEPT !.ret = -1]
       ELSE UnmountEntry(k, CHOOSE i \in S : \A j \in S : i <= j,
                         k.obj[k.mounts[CHOOSE i \in S : \A j \in S : i <= j]].mount_point)

\* devfs_open_handler and devfs_close_handler called through the node's
\* table: the result of the hook (0 when the node has none); the device's
\* own hook answers hook_rc.
devfs_handler(obj, node, hook, hook_rc) ==
    IF hook \notin obj[node].ops THEN 0
    ELSE IF obj[node].private_data = NULL THEN -1
    ELSE IF ~Valid(obj, obj[node].private_data, "device") THEN 0
    ELSE IF hook \in obj[obj[node].private_data].ops THEN hook_rc
    ELSE 0

\* The hook above reads the device through node->private_data.
DanglingDevice(obj, node, hook) ==
    /\ hook \in obj[node].ops
    /\ obj[node].private_data # NULL
    /\ ~Valid(obj, obj[node].private_data, "device")

\* vfs_open from the open hook on; f is the new VfsFile.
OpenHook(k1, node, f, flags, rc) ==
    IF rc # 0
      THEN [vfs_node_unref(k1, node)
              EXCEPT !.heap = kfree(@, f), !.obj[f].alive = FALSE,
                     !.ret = rc, !.res = NULL]
    ELSE [k1 EXCEPT
            !.obj[node].size = IF (flags \div VFS_O_TRUNC) % 2 = 1 THEN 0 ELSE @,
            !.obj[f].offset = IF (flags \div VFS_O_APPEND) % 2 = 1
                                THEN (IF (flags \div VFS_O_TRUNC) % 2 = 1
                                        THEN 0 ELSE k1.obj[node].size)
                                ELSE @,
            !.ret = 0, !.res = f]

\* vfs_open after the allocation of the VfsFile.
OpenFile(k1, node, flags, hook_rc) ==
    IF k1.res = NULL THEN [k1 EXCEPT !.ret = -2]
    ELSE OpenHook([k1 EXCEPT !.obj[node].ref_count = @ + 1,
                             !.undef = @ \/ DanglingDevice(k1.obj, node, "open")],
                  node, k1.res, flags,
                  devfs_handler(k1.obj, node, "open", hook_rc))

\* vfs_open.  With VFS_O_CREAT a missing node is created by the parent's
\* create hook; no VfsFileOps table of the kernel has one (device.c:141),
\* so the node stays missing.
vfs_open(k, path, flags, hook_rc) ==
    IF vfs_lookup(k.obj, k.root_node, path) = NULL THEN [k EXCEPT !.ret = -1, !.res = NULL]
    ELSE OpenFile(Place(k, kmalloc(k.heap, SIZEOF_VfsFile), SIZEOF_VfsFile,
                        [kind |-> "file", alive |-> TRUE,
                         node |-> vfs_lookup(k.obj, k.root_node, path),
                         flags |-> flags, offset |-> 0, ref_count |-> 1]),
                  vfs_lookup(k.obj, k.root_node, path), flags, hook_rc)

vfs_close(k, file, hook_rc) ==
    IF file = NULL THEN [k EXCEPT !.ret = -1]
    ELSE IF k.obj[file].node = NULL THEN [vfs_file_unref(k, file) EXCEPT !.ret = 0]
    ELSE IF ~Valid(k.obj, k.obj[file].node, "node") THEN [k EXCEPT !.undef = TRUE]
    ELSE [vfs_file_unref(k, file)
            EXCEPT !.ret = devfs_handler(k.obj, k.obj[file].node, "close", hook_rc),
                   !.undef = @ \/ DanglingDevice(k.obj, k.obj[file].node, "close")]

\* vfs_unlink once the lookup has answered node.  The parent's unlink hook
\* comes first when it has one; no table of the kernel does (device.c:142).
vfs_unlink(k, node) ==
    IF node = NULL THEN [k EXCEPT !.ret = -1]
    ELSE IF k.obj[node].type = VFS_TYPE_DIR THEN [k EXCEPT !.ret = -2]
    ELSE [vfs_node_unref([k EXCEPT !.obj = vfs_remove_child(@, k.obj[node].parent, node)],
                         node)
            EXCEPT !.ret = 0]

\* vfs_rmdir once the lookup has answered node.  The branch for a rmdir
\* hook is empty (vfs.c:575-577).
vfs_rmdir(k, node) ==
    IF node = NULL THEN [k EXCEPT !.ret = -1]
    ELSE IF k.obj[node].type # VFS_TYPE_DIR THEN [k EXCEPT !.ret = -2]
    ELSE IF k.obj[node].children # NULL THEN [k EXCEPT !.ret = -3]
    ELSE [vfs_node_unref([k EXCEPT !.obj = vfs_remove_child(@, k.obj[node].parent, node)],
                         node)
            EXCEPT !.ret = 0]

\* vfs_init.
vfs_init(k) ==
    LET k1 == vfs_create_node([k EXCEPT !.registered_fs = <<>>, !.mounts = <<>>],
                              "/", VFS_TYPE_DIR)
    IN IF k1.res = NULL THEN [k1 EXCEPT !.root_node = NULL]
       ELSE [k1 EXCEPT !.root_node = k1.res, !.obj[k1.res].permissions = 493]

vfs_register_filesystem(fss, fs) ==
    IF Len(fss) >= VFS_MAX_FILESYSTEMS THEN fss
    ELSE IF \E i \in 1..Len(fss) : fss[i].name = fs.name THEN fss
    ELSE Append(fss, fs)

\* devfs_init after the creation of the /dev directory.
DevfsInitMount(k1) ==
    IF k1.res = NULL THEN k1
    ELSE vfs_mount([k1 EXCEPT !.obj = vfs_add_child([@ EXCEPT ![k1.res].permissions = 493],
                                                    k1.root_node, k1.res)],
                   <<"/", "dev">>, "devfs")

\* device_init, with devfs_init and its vfs_register_filesystem.
device_init(k) ==
    IF k.root_node = NULL
      THEN [k EXCEPT !.device_list = <<>>, !.driver_list = <<>>,
                     !.registered_fs = vfs_register_filesystem(@, devfs_type)]
      ELSE DevfsInitMount(vfs_create_node(
               [k EXCEPT !.device_list = <<>>, !.driver_list = <<>>,
                         !.registered_fs = vfs_register_filesystem(@, devfs_type)],
               "dev", VFS_TYPE_DIR))

device_create(k, name, type, major, minor) ==
    Place(k, kmalloc(k.heap, SIZEOF_Device), SIZEOF_Device,
          [kind |-> "device", alive |-> TRUE, name |-> name, type |-> type,
           major |-> major, minor |-> minor, ops |-> {}, driver |-> NULL,
           vfs_node |-> NULL])

device_find_by_name(obj, list, name) ==
    LET S == {i \in 1..Len(list) : obj[list[i]].name = name}
    IN IF S = {} THEN NULL ELSE list[CHOOSE i \in S : \A j \in S : i <= j]

\* devfs_create_node after vfs_create_node.
DevfsNode(k1, dev) ==
    IF k1.res = NULL THEN k1
    ELSE [k1 EXCEPT
            !.obj = [vfs_add_child(
                        [@ EXCEPT ![k1.res].dev_major = k1.obj[dev].major,
                                  ![k1.res].dev_minor = k1.obj[dev].minor,
                                  ![k1.res].permissions = 438,
                                  ![k1.res].ops = devfs_file_ops,
                                  ![k1.res].private_data = dev],
                        k1.devfs_root, k1.res)
                       EXCEPT ![dev].vfs_node = k1.res]]

devfs_create_node(k, dev) ==
    IF dev = NULL \/ k.devfs_root = NULL THEN k
    ELSE DevfsNode(vfs_create_node(k, k.obj[dev].name,
                                   IF k.obj[dev].type = DEV_TYPE_BLOCK
                                     THEN VFS_TYPE_BLOCKDEV ELSE VFS_TYPE_CHARDEV),
                   dev)

\* A driver is a static struct of the code that registers it: addr is its
\* address, ops its default operation table (empty: a null pointer), and
\* probe and attach say what the hook returns for every device ("ok": 0,
\* "fail": non-zero), or "none" when the pointer is null.  The hooks are
\* taken to store nothing.
Driver(addr, name, type, probe, attach, ops) ==
    [addr |-> addr, name |-> name, type |-> type, probe |-> probe,
     attach |-> attach, ops |-> ops]

DriverMatches(drv, d) == drv.type = d.type \/ drv.type = DEV_TYPE_UNKNOWN

TryDriver_ignores_probe(drv, d) ==
    IF drv.probe = "none" THEN [dev |-> d, hooks |-> <<>>, bound |-> FALSE]
    ELSE IF drv.attach = "none"
      THEN [dev |-> d, hooks |-> << <<"probe", drv.addr>> >>, bound |-> FALSE]
    ELSE IF drv.attach # "ok"
      THEN [dev |-> d, hooks |-> << <<"probe", drv.addr>>, <<"attach", drv.addr>> >>,
            bound |-> FALSE]
    ELSE [dev |-> [d EXCEPT !.driver = drv.addr,
                            !.ops = IF d.ops = {} THEN drv.ops ELSE d.ops],
          hooks |-> << <<"probe", drv.addr>>, <<"attach", drv.addr>> >>,
          bound |-> TRUE]

\* The body of the matching loops of device_register and driver_register
\* for one driver and one device: the device and the hooks called.
\* bound: the attach hook returned 0.
TryDriver(drv, d) ==
    IF drv.probe = "none" THEN [dev |-> d, hooks |-> <<>>, bound |-> FALSE]
    ELSE IF drv.probe # "ok"
      THEN [dev |-> d, hooks |-> << <<"probe", drv.addr>> >>, bound |-> FALSE]
    ELSE IF drv.attach = "none"
      THEN [dev |-> d, hooks |-> << <<"probe", drv.addr>> >>, bound |-> FALSE]
    ELSE IF drv.attach # "ok"
      THEN [dev |-> d, hooks |-> << <<"probe", drv.addr>>, <<"attach", drv.addr>> >>,
            bound |-> FALSE]
    ELSE [dev |-> [d EXCEPT !.driver = drv.addr,
                            !.ops = IF d.ops = {} THEN drv.ops ELSE d.ops],
          hooks |-> << <<"probe", drv.addr>>, <<"attach", drv.addr>> >>,
          bound |-> TRUE]

\* device_register's loop over the driver registry from its i-th entry; it
\* ends at the first driver whose attach hook returns 0.
RECURSIVE FindDriver(_, _, _, _)
FindDriver(drivers, i, d, hooks) ==
    IF i > Len(drivers) THEN [dev |-> d, hooks |-> hooks]
    ELSE IF ~DriverMatches(drivers[i], d) THEN FindDriver(drivers, i + 1, d, hooks)
    ELSE LET t == TryDriver(drivers[i], d)
         IN IF t.bound THEN [dev |-> t.dev, hooks |-> hooks \o t.hooks]
            ELSE FindDriver(drivers, i + 1, d, hooks \o t.hooks)

\* device_register from "Try to find a driver" on; k1 is the state after
\* devfs_create_node.
DeviceBind(k1, dev) ==
    LET f == FindDriver(k1.driver_list, 1, k1.obj[dev], <<>>)
    IN [k1 EXCEPT !.obj[dev] = f.dev, !.hooks = f.hooks, !.ret = 0]

device_register(k, dev) ==
    IF dev = NULL THEN [k EXCEPT !.ret = -1]
    ELSE IF Len(k.device_list) >= MAX_DEVICES THEN [k EXCEPT !.ret = -2]
    ELSE IF device_find_by_name(k.obj, k.device_list, k.obj[dev].name) # NULL
      THEN [k EXCEPT !.ret = -3]
    ELSE DeviceBind(devfs_create_node([k EXCEPT !.device_list = <<dev>> \o @], dev), dev)

\* driver_register's loop over the device registry from its i-th entry:
\* every device without a driver that the driver matches is tried.
RECURSIVE AttachDevices(_, _, _, _, _)
AttachDevices(obj, list, i, drv, hooks) ==
    IF i > Len(list) THEN [obj |-> obj, hooks |-> hooks]
    ELSE IF obj[list[i]].driver # NULL \/ ~DriverMatches(drv, obj[list[i]])
      THEN AttachDevices(obj, list, i + 1, drv, hooks)
    ELSE LET t == TryDriver(drv, obj[list[i]])
         IN AttachDevices([obj EXCEPT ![list[i]] = t.dev], list, i + 1, drv,
                          hooks \o t.hooks)

driver_find_by_name(drivers, name) ==
    LET S == {i \in 1..Len(drivers) : drivers[i].name = name}
    IN IF S = {} THEN NULL ELSE drivers[CHOOSE i \in S : \A j \in S : i <= j].addr

\* driver_register(drv) with drv non-null.
driver_register(k, drv) ==
    IF Len(k.driver_list) >= MAX_DRIVERS THEN [k EXCEPT !.ret = -2]
    ELSE IF driver_find_by_name(k.driver_list, drv.name) # NULL THEN [k EXCEPT !.ret = -3]
    ELSE LET a == AttachDevices(k.obj, k.device_list, 1, drv, <<>>)
         IN [k EXCEPT !.driver_list = <<drv>> \o @, !.obj = a.obj, !.hooks = a.hooks,
                      !.ret = 0]

devfs_remove_node(k, dev) ==
    IF dev = NULL THEN k
    ELSE IF k.obj[dev].vfs_node = NULL THEN k
    ELSE [vfs_node_unref(
             [k EXCEPT !.obj = vfs_remove_child(@, k.devfs_root, k.obj[dev].vfs_node)],
             k.obj[dev].vfs_node)
            EXCEPT !.obj[dev].vfs_node = NULL]

device_unregister(k, dev) ==
    IF dev = NULL THEN [k EXCEPT !.ret = -1]
    ELSE [devfs_remove_node(
             [k EXCEPT !.device_list = SelectSeq(@, LAMBDA d : d # dev)], dev)
            EXCEPT !.ret = 0]

device_destroy(k, dev) ==
    IF dev = NULL THEN k
    ELSE [device_unregister(k, dev)
            EXCEPT !.heap = kfree(@, dev), !.obj[dev].alive = FALSE, !.ret = 0]

\* vfs_lookup_parent: the node of the path before the last slash, and the
\* component after it (empty when the path ends in a slash).  The path
\* holds a slash.
LastSlash(path) == CHOOSE i \in DOMAIN path : path[i] = "/" /\ \A j \in DOMAIN path : path[j] = "/" => j <= i

Basename(path) == IF LastSlash(path) = Len(path) THEN "" ELSE path[Len(path)]

vfs_lookup_parent(obj, root, path) ==
    IF path = <<>> THEN NULL
    ELSE IF LastSlash(path) = 1 THEN root
    ELSE vfs_lookup(obj, root, SubSeq(path, 1, LastSlash(path) - 1))

\* vfs_mkdir after the creation of the node.  No VfsFileOps table of the
\* kernel has a mkdir hook (device.c:143).
MkdirLink(k1, parent, mode) ==
    IF k1.res = NULL THEN [k1 EXCEPT !.ret = -2]
    ELSE [k1 EXCEPT !.obj = vfs_add_child([@ EXCEPT ![k1.res].permissions = mode],
                                          parent, k1.res),
                    !.ret = 0]

vfs_mkdir(k, path, mode) ==
    IF vfs_lookup_parent(k.obj, k.root_node, path) = NULL THEN [k EXCEPT !.ret = -1]
    ELSE MkdirLink(vfs_create_node(k, Basename(path), VFS_TYPE_DIR),
                   vfs_lookup_parent(k.obj, k.root_node, path), mode)

\* The loop of vfs_readdir: the entries filled in, and the index it ends at.
\* No node is given an inode number after the memset of vfs_create_node.
RECURSIVE ReaddirLoop(_, _, _, _, _, _)
ReaddirLoop(obj, child, index, offset, filled, count) ==
    IF child = NULL \/ Len(filled) >= count THEN [entries |-> filled, index |-> index]
    ELSE ReaddirLoop(obj, obj[child].next, index + 1, offset,
                     IF index >= offset
                       THEN Append(filled, [inode |-> 0, type |-> obj[child].type,
                                            name |-> obj[child].name])
                       ELSE filled,
                     count)

\* vfs_readdir(dir, dirent, count) with a dirent array of count entries:
\* res is the part of the array that was filled in.  No VfsFileOps table of
\* the kernel has a readdir hook (device.c:140).
vfs_readdir(k, dir, count) ==
    IF dir = NULL THEN [k EXCEPT !.ret = -1, !.res = <<>>]
    ELSE IF k.obj[dir].node = NULL THEN [k EXCEPT !.ret = -2, !.res = <<>>]
    ELSE IF ~Valid(k.obj, k.obj[dir].node, "node") THEN [k EXCEPT !.undef = TRUE, !.res = <<>>]
    ELSE IF k.obj[k.obj[dir].node].type # VFS_TYPE_DIR THEN [k EXCEPT !.ret = -2, !.res = <<>>]
    ELSE LET r == ReaddirLoop(k.obj, k.obj[k.obj[dir].node].children, 0,
                              k.obj[dir].offset, <<>>, count)
         IN [k EXCEPT !.obj[dir].offset = r.index, !.ret = Len(r.entries),
                      !.res = r.entries]
\* ------------------------------------------------------------ heap actions
HeapInit ==
    /\ heap = heap_init
    /\ live = {}
    /\ hung = FALSE
    /\ calls = 0
    /\ op = [name |-> "heap_init", arg |-> 0, ret |-> 0]

KmallocCall(n) ==
    /\ ~hung
    /\ calls < MaxCalls
    /\ calls' = calls + 1
    /\ LET r == kmalloc(heap, n)
       IN /\ heap' = r.heap
          /\ hung' = r.hang
          /\ live' = IF r.ptr = NULL THEN live ELSE live \cup {r.ptr}
          /\ op' = [name |-> "kmalloc", arg |-> n, ret |-> r.ptr]

KfreeCall(p) ==
    /\ ~hung
    /\ calls < MaxCalls
    /\ calls' = calls + 1
    /\ heap' = kfree(heap, p)
    /\ live' = live \ {p}
    /\ hung' = hung
    /\ op' = [name |-> "kfree", arg |-> p, ret |-> 0]

\* The copy loop of krealloc (lines 239-243) reproduces at dst the n bytes
\* that were at src when krealloc was entered: the allocation between (h
\* before, a after) has written no header into them and dst's bytes do not
\* overlap them.
CopyIntact(h, a, src, dst, n) ==
    /\ dst + n <= src \/ src + n <= dst
    /\ \A x \in DOMAIN a.heap.mem :
          (x + HEADER_SIZE > src /\ x < src + n) =>
              (x \in DOMAIN h.mem /\ h.mem[x] = a.heap.mem[x])

\* The copy loop writes over a block header.
CopyClobbers(a, dst, n) ==
    \E x \in DOMAIN a.heap.mem : x + HEADER_SIZE > dst /\ x < dst + n

\* krealloc(p, n) on a pointer the caller holds.  moved: the loop copied;
\* intact: what it left at the new address is what was at p.
KreallocCall(p, n) ==
    LET old == heap.mem[p - HEADER_SIZE].size
        a == kmalloc(heap, n)
        r == krealloc(heap, p, n)
        moved == n # 0 /\ IsBlockPtr(heap, p) /\ ULt(old, n) /\ ~r.hang /\ r.ptr # NULL
    IN /\ ~hung
       /\ calls' = calls + 1
       /\ heap' = r.heap
       /\ hung' = r.hang
       /\ undefined' = (undefined \/ (moved /\ CopyClobbers(a, r.ptr, old)))
       /\ live' = IF n = 0 THEN live \ {p}
                  ELSE IF moved THEN (live \ {p}) \cup {r.ptr}
                  ELSE live
       /\ op' = [name |-> "krealloc", arg |-> p, ret |-> r.ptr, size |-> n,
                 old_size |-> IF IsBlockPtr(heap, p) THEN old ELSE 0, moved |-> moved,
                 intact |-> (moved => CopyIntact(heap, a, p, r.ptr, old))]

\* ---------------------------------------------------------- module actions
ModuleInit ==
    /\ loaded_modules = << >>
    /\ module_count = 0
    /\ kernel_symbols = << >>
    /\ elf_kernel_symbols = << >>
    /\ mcalls = 0
    /\ mop = [name |-> "module_init_system", arg |-> "", ret |-> 0,
              elf_rc |-> 0, stats |-> heap_get_stats(heap_init), hooks |-> << >>]

\* The record of a call: its result, the heap statistics at its entry and
\* the module hooks it invoked, in order.
MopHooks(name, arg, ret, elf_rc, hooks) ==
    [name |-> name, arg |-> arg, ret |-> ret, elf_rc |-> elf_rc,
     stats |-> heap_get_stats(heap), hooks |-> hooks]

MopRecord(name, arg, ret, elf_rc) == MopHooks(name, arg, ret, elf_rc, << >>)

\* The record of a module that is set running whatever its init hook returned.
NewModule_always_running(obj, ptr, image, result) ==
    [ptr |-> ptr, name |-> obj.name, state |-> MODULE_STATE_RUNNING,
     flags |-> 0, ref_count |-> 1, deps |-> << >>, users |-> << >>,
     info |-> elf_find_symbol(image, "module_info"),
     image |-> image,
     init_calls |-> IF image.init_func # NULL THEN 1 ELSE 0,
     init_ret |-> result]

\* The Module record module_load links into the list (lines 227-272).
\* deps and users are the arrays with their counts; init_calls and init_ret
\* record the invocations of the record's init hook and what the last
\* one returned.
NewModule(obj, ptr, image, result) ==
    [ptr |-> ptr, name |-> obj.name,
     state |-> IF result # 0 THEN MODULE_STATE_ERROR ELSE MODULE_STATE_RUNNING,
     flags |-> 0, ref_count |-> 1, deps |-> << >>, users |-> << >>,
     info |-> elf_find_symbol(image, "module_info"),
     image |-> image,
     init_calls |-> IF image.init_func # NULL THEN 1 ELSE 0,
     init_ret |-> result]

\* module_load from "find module_info" on: e is elf_load_module's result.
ModuleLoadImage(obj, ptr, e) ==
    IF e.hang THEN
      /\ hung' = TRUE
      /\ mop' = MopRecord("module_load", obj.name, 0, 0)
      /\ UNCHANGED <<heap, loaded_modules, module_count>>
    ELSE IF e.rc # ELF_OK THEN
      /\ heap' = kfree(e.heap, ptr)
      /\ mop' = MopRecord("module_load", obj.name, -5, e.rc)
      /\ UNCHANGED <<hung, loaded_modules, module_count>>
    ELSE
      LET result == IF e.image.init_func # NULL THEN obj.initRet ELSE 0
      IN /\ heap' = e.heap
         /\ loaded_modules' = << NewModule(obj, ptr, e.image, result) >> \o loaded_modules
         /\ module_count' = module_count + 1
         /\ mop' = MopHooks("module_load", obj.name, IF result # 0 THEN -6 ELSE 0, ELF_OK,
                            IF e.image.init_func # NULL THEN << "init" >> ELSE << >>)
         /\ UNCHANGED hung

\* module_load once the Module record has been asked for (a0).
ModuleLoadAlloc(obj, a0) ==
    IF a0.hang THEN
      /\ hung' = TRUE
      /\ mop' = MopRecord("module_load", obj.name, 0, 0)
      /\ UNCHANGED <<heap, loaded_modules, module_count>>
    ELSE IF a0.ptr = NULL THEN
      /\ mop' = MopRecord("module_load", obj.name, -4, 0)
      /\ UNCHANGED <<heap, hung, loaded_modules, module_count>>
    ELSE ModuleLoadImage(obj, a0.ptr,
                         elf_load_module(Memset0(a0.heap, a0.ptr, SIZEOF_Module),
                                         obj, elf_kernel_symbols))

\* module_load(name, data, size) with data the object file obj.
ModuleLoad(obj) ==
    /\ ~hung
    /\ mcalls' = mcalls + 1
    /\ UNCHANGED <<kernel_symbols, elf_kernel_symbols, live, calls, op>>
    /\ IF module_find(loaded_modules, obj.name) # 0 THEN
         /\ mop' = MopRecord("module_load", obj.name, -1, 0)
         /\ UNCHANGED <<heap, hung, loaded_modules, module_count>>
       ELSE IF module_count >= MAX_MODULES THEN
         /\ mop' = MopRecord("module_load", obj.name, -2, 0)
         /\ UNCHANGED <<heap, hung, loaded_modules, module_count>>
       ELSE IF elf_validate(obj) # ELF_OK THEN
         /\ mop' = MopRecord("module_load", obj.name, -3, 0)
         /\ UNCHANGED <<heap, hung, loaded_modules, module_count>>
       ELSE ModuleLoadAlloc(obj, kmalloc(heap, SIZEOF_Module))

\* The checks without the one of the reference count.
UnloadCheck_no_refcount(m) ==
    IF (m.flags \div MODULE_FLAG_ESSENTIAL) % 2 = 1 THEN -2
    ELSE IF Len(m.users) > 0 THEN -4
    ELSE 0

\* The checks of module_unload on the module found: the error, or 0.
UnloadCheck(m) ==
    IF (m.flags \div MODULE_FLAG_ESSENTIAL) % 2 = 1 THEN -2
    ELSE IF m.ref_count > 1 THEN -3
    ELSE IF Len(m.users) > 0 THEN -4
    ELSE 0

\* users[] of a dependency without the first entry equal to ptr.
DropUser(users, ptr) ==
    LET idx == {j \in 1..Len(users) : users[j] = ptr}
    IN IF idx = {} THEN users
       ELSE LET j == CHOOSE j \in idx : \A k \in idx : j <= k
            IN SubSeq(users, 1, j - 1) \o SubSeq(users, j + 1, Len(users))

module_unref(m) == IF m.ref_count > 0 THEN [m EXCEPT !.ref_count = @ - 1] ELSE m

\* The loop over deps[] of module_unload: the list after the first k
\* dependencies of m have dropped m from their users and lost a reference.
RECURSIVE UnlinkDeps(_, _, _)
UnlinkDeps(mods, m, k) ==
    IF k = 0 THEN mods
    ELSE LET prev == UnlinkDeps(mods, m, k - 1)
         IN [d \in 1..Len(prev) |->
               IF prev[d].ptr = m.deps[k]
                 THEN module_unref([prev[d] EXCEPT !.users = DropUser(@, m.ptr)])
                 ELSE prev[d]]

\* module_unload(name).
ModuleUnload(name) ==
    /\ ~hung
    /\ mcalls' = mcalls + 1
    /\ UNCHANGED <<kernel_symbols, elf_kernel_symbols, live, calls, op, hung>>
    /\ LET i == module_find(loaded_modules, name)
       IN IF i = 0 THEN
            /\ mop' = MopRecord("module_unload", name, -1, 0)
            /\ UNCHANGED <<heap, loaded_modules, module_count>>
          ELSE IF UnloadCheck(loaded_modules[i]) # 0 THEN
            /\ mop' = MopRecord("module_unload", name, UnloadCheck(loaded_modules[i]), 0)
            /\ UNCHANGED <<heap, loaded_modules, module_count>>
          ELSE
            /\ heap' = kfree(elf_unload(heap, loaded_modules[i].image),
                             loaded_modules[i].ptr)
            /\ loaded_modules' =
                 LET mods == UnlinkDeps(loaded_modules, loaded_modules[i],
                                        Len(loaded_modules[i].deps))
                 IN SubSeq(mods, 1, i - 1) \o SubSeq(mods, i + 1, Len(mods))
            /\ module_count' = module_count - 1
            /\ mop' = MopHooks("module_unload", name, 0, 0,
                               IF loaded_modules[i].image.cleanup_func # NULL
                                 THEN << "cleanup" >> ELSE << >>)

\* module_ref(module_find(name)) and module_unref(module_find(name)).
ModuleRef(name) ==
    /\ ~hung
    /\ mcalls' = mcalls + 1
    /\ module_find(loaded_modules, name) # 0
    /\ loaded_modules' = [loaded_modules EXCEPT
                             ![module_find(loaded_modules, name)].ref_count = @ + 1]
    /\ mop' = MopRecord("module_ref", name, 0, 0)
    /\ UNCHANGED <<heapVars, module_count, kernel_symbols, elf_kernel_symbols>>

ModuleUnref(name) ==
    /\ ~hung
    /\ mcalls' = mcalls + 1
    /\ module_find(loaded_modules, name) # 0
    /\ loaded_modules' = [loaded_modules EXCEPT
                             ![module_find(loaded_modules, name)] = module_unref(@)]
    /\ mop' = MopRecord("module_unref", name, 0, 0)
    /\ UNCHANGED <<heapVars, module_count, kernel_symbols, elf_kernel_symbols>>

\* A holder of the Module pointer module_find returns sets a flag bit in it.
ModuleSetFlag(name, flag) ==
    /\ ~hung
    /\ mcalls' = mcalls + 1
    /\ module_find(loaded_modules, name) # 0
    /\ (loaded_modules[module_find(loaded_modules, name)].flags \div flag) % 2 = 0
    /\ loaded_modules' = [loaded_modules EXCEPT
                             ![module_find(loaded_modules, name)].flags = @ + flag]
    /\ mop' = MopRecord("set_flag", name, 0, 0)
    /\ UNCHANGED <<heapVars, module_count, kernel_symbols, elf_kernel_symbols>>

\* A module records that it depends on another one, the way module_unload
\* undoes it: user in dep->users[], dep in user->deps[], one reference.
ModuleAddDep(user, dep) ==
    LET u == module_find(loaded_modules, user)
        d == module_find(loaded_modules, dep)
    IN /\ ~hung
          /\ mcalls' = mcalls + 1
       /\ u # 0 /\ d # 0 /\ u # d
       /\ Len(loaded_modules[u].deps) < MAX_MODULE_DEPS
       /\ Len(loaded_modules[d].users) < MAX_MODULE_DEPS
       /\ loaded_modules[d].ptr \notin {loaded_modules[u].deps[k] :
                                          k \in 1..Len(loaded_modules[u].deps)}
       /\ loaded_modules' = [loaded_modules EXCEPT
                                ![u].deps = Append(@, loaded_modules[d].ptr),
                                ![d].users = Append(@, loaded_modules[u].ptr),
                                ![d].ref_count = @ + 1]
       /\ mop' = MopRecord("add_dep", user, 0, 0)
       /\ UNCHANGED <<heapVars, module_count, kernel_symbols, elf_kernel_symbols>>

\* module_register_symbols(symbols, count): module.c's late-bound table.
ModuleRegisterSymbols(table) ==
    /\ ~hung
    /\ kernel_symbols # table
    /\ kernel_symbols' = table
    /\ UNCHANGED <<heapVars, loaded_modules, module_count, elf_kernel_symbols, mcalls, mop>>

\* elf_register_kernel_symbols(symbols, count): elf.c's own table.
ElfRegisterKernelSymbols(table) ==
    /\ ~hung
    /\ elf_kernel_symbols # table
    /\ elf_kernel_symbols' = table
    /\ UNCHANGED <<heapVars, loaded_modules, module_count, kernel_symbols, mcalls, mop>>

\* Heap traffic of the rest of the kernel between module calls.
OtherHeapCall ==
    /\ calls < ModHeapCalls
    /\ \/ KmallocCall(64)
       \/ \E p \in live : KfreeCall(p)
    /\ mop' = MopRecord(op'.name, "", 0, 0)
    /\ UNCHANGED <<loaded_modules, module_count, kernel_symbols, elf_kernel_symbols, mcalls>>

\* kmalloc run by the interrupted code in three steps, with interrupt
\* handlers that call the heap between them.  While a call is in progress
\* op names the function it has just left, op.ret is the block chosen and
\* op.irq lists the pointers kmalloc gave to interrupt handlers meanwhile;
\* op.mixed is TRUE once a heap call has run inside another.
InKmalloc == op.name \in {"find_free_block", "split_block"}
Mixed(o) == o.name # "heap_init" /\ o.mixed

\* kmalloc(n), lines 121-140: up to the return of find_free_block.
KmallocEnter(n) ==
    /\ ~hung /\ ~InKmalloc
    /\ n # 0
    /\ calls' = calls + 1
    /\ LET f == find_free_block(heap, AlignSize(n))
       IN /\ hung' = f.hang
          /\ op' = [name |-> IF f.hang \/ f.block = NULL THEN "kmalloc" ELSE "find_free_block",
                    arg |-> n, ret |-> f.block, irq |-> <<>>, mixed |-> Mixed(op)]
    /\ UNCHANGED <<heap, live>>

\* kmalloc, line 143: split_block(block, size).
KmallocSplit ==
    /\ ~hung /\ op.name = "find_free_block"
    /\ heap' = [heap EXCEPT !.mem = split_block(@, op.ret, AlignSize(op.arg))]
    /\ op' = [op EXCEPT !.name = "split_block"]
    /\ UNCHANGED <<live, hung, calls>>

\* kmalloc, lines 145-154: mark as used, statistics, return.
KmallocLeave ==
    /\ ~hung /\ op.name = "split_block"
    /\ LET r == KmallocTake(heap, op.ret, heap.mem)
       IN /\ heap' = r.heap
          /\ live' = live \cup {r.ptr}
          /\ op' = [op EXCEPT !.name = "kmalloc", !.ret = r.ptr]
    /\ UNCHANGED <<hung, calls>>

\* An interrupt handler calls kmalloc(n); the handler runs to its end before
\* the interrupted code goes on.
IrqKmalloc(n) ==
    /\ ~hung
    /\ calls' = calls + 1
    /\ LET r == kmalloc(heap, n)
       IN /\ heap' = r.heap
          /\ hung' = r.hang
          /\ live' = IF r.ptr = NULL THEN live ELSE live \cup {r.ptr}
          /\ op' = IF InKmalloc
                     THEN [op EXCEPT !.irq = Append(@, r.ptr), !.mixed = TRUE]
                     ELSE [name |-> "kmalloc", arg |-> n, ret |-> r.ptr, irq |-> <<>>,
                           mixed |-> Mixed(op)]

\* An interrupt handler calls kfree(p).
IrqKfree(p) ==
    /\ ~hung
    /\ calls' = calls + 1
    /\ heap' = kfree(heap, p)
    /\ live' = live \ {p}
    /\ hung' = hung
    /\ op' = IF InKmalloc
               THEN [op EXCEPT !.mixed = TRUE]
               ELSE [name |-> "kfree", arg |-> p, ret |-> 0, irq |-> <<>>, mixed |-> Mixed(op)]

\* kcalloc(count, size); the arguments are uint64_t values, those of 2^63
\* and more written as negative residues modulo 2^64.
KcallocCall(count, size) ==
    /\ ~hung
    /\ calls' = calls + 1
    /\ LET r == kcalloc(heap, count, size)
       IN /\ heap' = r.heap
          /\ hung' = r.hang
          /\ live' = IF r.ptr = NULL THEN live ELSE live \cup {r.ptr}
          /\ op' = [name |-> "kcalloc", arg |-> <<count, size>>, ret |-> r.ptr]

\* --------------------------------------------------------- syscall actions
SyscallInit ==
    /\ linux_abi_mode = 0
    /\ syscall_table = syscall_init
    /\ linux_syscall_table = [n \in 0..(LINUX_MAX_SYSCALL - 1) |-> NoHandler]
    /\ fd_table = [fd \in 0..(MAX_FDS - 1) |-> [in_use |-> 0, type |-> 0, pos |-> 0]]
    /\ program_break = 8388608
    /\ current_program_running = 0
    /\ program_exit_code = 0
    /\ console_out = 0
    /\ rax = 0
    /\ scalls = 0
    /\ sop = [name |-> "syscall_init", num |-> 0, mode |-> 0,
              table |-> "", handler |-> NoHandler, rdi |-> <<0, 0>>]

\* The kernel state a syscall starts from.
KState ==
    [heap |-> heap, fd_table |-> fd_table, program_break |-> program_break,
     running |-> current_program_running, exit_code |-> program_exit_code,
     out |-> console_out, mode |-> linux_abi_mode, hang |-> FALSE, ret |-> 0,
     table |-> "", handler |-> NoHandler, rdi_hi |-> 0, keys |-> 0, fault |-> FALSE]

\* The state after a syscall that ended in state k (a hang never returns).
SyscallReturn(num, a1, k) ==
    /\ hung' = k.hang
    /\ heap' = k.heap
    /\ fd_table' = k.fd_table
    /\ program_break' = k.program_break
    /\ current_program_running' = k.running
    /\ program_exit_code' = k.exit_code
    /\ console_out' = k.out
    /\ linux_abi_mode' = k.mode
    /\ rax' = IF k.hang THEN rax ELSE k.ret
    /\ live' = IF k.handler \in {"sys_malloc", "sys_realloc", "sys_calloc", "linux_sys_mmap"}
                  /\ ~k.hang /\ k.ret \notin {NULL, MAP_FAILED}
                 THEN (live \ {a1}) \cup {k.ret}
               ELSE IF k.handler \in {"sys_free", "linux_sys_munmap", "sys_realloc"}
                 THEN live \ {a1}
               ELSE live
    /\ sop' = [name |-> "syscall_handler", num |-> num, mode |-> linux_abi_mode,
               table |-> k.table, handler |-> k.handler,
               rdi |-> IF k.handler \in FdHandlers THEN <<k.rdi_hi, a1>> ELSE <<0, 0>>]

\* The interrupt 0x80 entry: syscall_handler(regs) with rax = num and the
\* argument registers rdi (high half rdi_hi, low half a1), a2 (rsi), a3 (rdx),
\* a4 (r10), a5 (r8); keys and fault are what the keyboard and the page
\* tables answer during the call.
SyscallEntry(num, rdi_hi, a1, a2, a3, a4, a5, keys, fault) ==
    /\ ~hung
    /\ scalls < MaxSyscalls
    /\ scalls' = scalls + 1
    /\ SyscallReturn(num, a1,
                     syscall_handler([KState EXCEPT !.rdi_hi = rdi_hi, !.keys = keys,
                                                    !.fault = fault],
                                     linux_abi_mode, syscall_table,
                                     linux_syscall_table, num, a1, a2, a3, a4, a5))
    /\ UNCHANGED <<syscall_table, linux_syscall_table, calls, op>>

\* A syscall whose rdi is the sign extension of a1, with an empty line typed.
SyscallHandler(num, a1, a2, a3, a4, a5) ==
    SyscallEntry(num, IF a1 < 0 THEN -1 ELSE 0, a1, a2, a3, a4, a5, 0, FALSE)

\* syscall_set_linux_mode(enable)
SyscallSetLinuxMode(enable) ==
    /\ ~hung
    /\ scalls < MaxSyscalls
    /\ scalls' = scalls + 1
    /\ linux_abi_mode' = enable
    /\ IF enable # 0
         THEN /\ linux_syscall_table' = linux_syscall_init
              /\ fd_table' = init_fd_table
         ELSE UNCHANGED <<linux_syscall_table, fd_table>>
    /\ sop' = [name |-> "syscall_set_linux_mode", num |-> enable, mode |-> linux_abi_mode,
               table |-> "", handler |-> NoHandler, rdi |-> <<0, 0>>]
    /\ UNCHANGED <<heapVars, syscall_table, program_break, current_program_running,
                   program_exit_code, console_out, rax>>

\* ------------------------------------------------- VFS and device actions
\* The kernel state a VFS or device manager call starts from.
VState ==
    [heap |-> heap, obj |-> objects, root_node |-> root_node, mounts |-> mounts,
     registered_fs |-> registered_fs, device_list |-> device_list,
     devfs_root |-> devfs_root, driver_list |-> driver_list, hooks |-> <<>>,
     hang |-> hung, undef |-> undefined, ret |-> 0, res |-> NULL]

\* Before vfs_init: no struct on the heap, every global zero.
VfsInit ==
    /\ objects = <<>>
    /\ root_node = NULL
    /\ mounts = <<>>
    /\ registered_fs = <<>>
    /\ device_list = <<>>
    /\ devfs_root = NULL
    /\ driver_list = <<>>
    /\ undefined = FALSE
    /\ file_handles = {}
    /\ dev_handles = {}
    /\ vcalls = 0
    /\ vop = [name |-> "", arg |-> <<>>, ret |-> 0, res |-> NULL, before |-> <<>>,
              hooks |-> <<>>]

\* The variables in state k, reached by the calls named in name.
VfsState(k, name) ==
    /\ heap = k.heap
    /\ hung = k.hang
    /\ live = {p \in DOMAIN k.obj : k.obj[p].alive}
    /\ calls = 0
    /\ op = [name |-> "heap_init", arg |-> 0, ret |-> 0]
    /\ objects = k.obj
    /\ root_node = k.root_node
    /\ mounts = k.mounts
    /\ registered_fs = k.registered_fs
    /\ device_list = k.device_list
    /\ devfs_root = k.devfs_root
    /\ driver_list = k.driver_list
    /\ undefined = k.undef
    /\ file_handles = {}
    /\ dev_handles = {p \in DOMAIN k.obj : k.obj[p].kind = "device"}
    /\ vcalls = 0
    /\ vop = [name |-> name, arg |-> <<>>, ret |-> 0, res |-> NULL, before |-> <<>>,
              hooks |-> <<>>]

\* The state after heap_init, vfs_init and device_init.
VfsBoot ==
    device_init(vfs_init([heap |-> heap_init, obj |-> <<>>, root_node |-> NULL,
                          mounts |-> <<>>, registered_fs |-> <<>>,
                          device_list |-> <<>>, devfs_root |-> NULL, driver_list |-> <<>>,
                          hooks |-> <<>>, hang |-> FALSE,
                          undef |-> FALSE, ret |-> 0, res |-> NULL]))

\* device_create by a driver that then fills in dev->ops and registers the device.
DeviceAdded(k, name, type, major, ops) ==
    LET k1 == device_create(k, name, type, major, 0)
    IN device_register([k1 EXCEPT !.obj[k1.res].ops = ops], k1.res)

\* The state after a call that ended in state k (a hang never returns).
VfsReturn(k, name, arg, before) ==
    /\ ~hung /\ ~undefined
    /\ vcalls' = vcalls + 1
    /\ heap' = k.heap
    /\ hung' = k.hang
    /\ live' = {p \in DOMAIN k.obj : k.obj[p].alive}
    /\ objects' = k.obj
    /\ root_node' = k.root_node
    /\ mounts' = k.mounts
    /\ registered_fs' = k.registered_fs
    /\ device_list' = k.device_list
    /\ devfs_root' = k.devfs_root
    /\ driver_list' = k.driver_list
    /\ undefined' = k.undef
    /\ vop' = [name |-> name, arg |-> arg, ret |-> k.ret, res |-> k.res, before |-> before,
               hooks |-> k.hooks]
    /\ UNCHANGED <<calls, op>>

\* device_create(name, type, major, 0); the caller then sets dev->ops.
DeviceCreate(name, type, major, ops) ==
    LET k == device_create(VState, name, type, major, 0)
    IN /\ VfsReturn(IF k.res = NULL THEN k ELSE [k EXCEPT !.obj[k.res].ops = ops],
                    "device_create", <<name>>, <<>>)
       /\ dev_handles' = IF k.res = NULL THEN dev_handles ELSE dev_handles \cup {k.res}
       /\ UNCHANGED file_handles

DeviceRegister(dev) ==
    /\ VfsReturn(device_register(VState, dev), "device_register", <<dev>>, <<>>)
    /\ UNCHANGED <<file_handles, dev_handles>>

\* driver_register(drv)
DriverRegister(drv) ==
    /\ VfsReturn(driver_register(VState, drv), "driver_register", <<drv.addr>>, <<>>)
    /\ UNCHANGED <<file_handles, dev_handles>>

DeviceUnregister(dev) ==
    /\ VfsReturn(device_unregister(VState, dev), "device_unregister", <<dev>>, <<>>)
    /\ UNCHANGED <<file_handles, dev_handles>>

DeviceDestroy(dev) ==
    /\ VfsReturn(device_destroy(VState, dev), "device_destroy", <<dev>>, <<>>)
    /\ dev_handles' = dev_handles \ {dev}
    /\ UNCHANGED file_handles

VfsUnlink(path) ==
    /\ VfsReturn(vfs_unlink(VState, vfs_lookup(objects, root_node, path)),
                 "vfs_unlink", path, <<>>)
    /\ UNCHANGED <<file_handles, dev_handles>>

VfsRmdir(path) ==
    /\ VfsReturn(vfs_rmdir(VState, vfs_lookup(objects, root_node, path)),
                 "vfs_rmdir", path, <<>>)
    /\ UNCHANGED <<file_handles, dev_handles>>

\* A call that resolves a path after the root node has been freed: the walk
\* starts from root_node and reads memory that no longer holds the node.
RootGone == root_node # NULL /\ ~(Valid(objects, root_node, "node") /\ objects[root_node].alive)

StaleRoot(name, path) ==
    /\ RootGone
    /\ VfsReturn([VState EXCEPT !.undef = TRUE], name, path, <<>>)
    /\ UNCHANGED <<file_handles, dev_handles>>

\* vfs_mount(NULL, target, fstype, 0, NULL)
VfsMount(target, fstype) ==
    /\ VfsReturn(vfs_mount(VState, target, fstype), "vfs_mount", target,
                 [objects |-> [p \in {q \in DOMAIN objects : objects[q].alive} |-> objects[p]],
                  mounts |-> mounts])
    /\ UNCHANGED <<file_handles, dev_handles>>

VfsUnmount(target) ==
    /\ VfsReturn(vfs_unmount(VState, target), "vfs_unmount", target, <<>>)
    /\ UNCHANGED <<file_handles, dev_handles>>

\* vfs_open(path, flags, &file); hook_rc is what the device's open hook returns.
VfsOpen(path, flags, hook_rc) ==
    LET k == vfs_open(VState, path, flags, hook_rc)
    IN /\ VfsReturn(k, "vfs_open", path, <<>>)
       /\ file_handles' = IF k.ret = 0 /\ ~k.hang THEN file_handles \cup {k.res}
                                                  ELSE file_handles
       /\ UNCHANGED dev_handles

\* vfs_close(file); hook_rc is what the device's close hook returns.
VfsClose(file, hook_rc) ==
    /\ VfsReturn(vfs_close(VState, file, hook_rc), "vfs_close", <<file>>, <<>>)
    /\ file_handles' = file_handles \ {file}
    /\ UNCHANGED dev_handles

VfsMkdir(path, mode) ==
    /\ VfsReturn(vfs_mkdir(VState, path, mode), "vfs_mkdir", path, <<>>)
    /\ UNCHANGED <<file_handles, dev_handles>>

\* vfs_readdir(dir, dirent, count); vop.before is the file as it was.
VfsReaddir(dir, count) ==
    /\ VfsReturn(vfs_readdir(VState, dir, count), "vfs_readdir", <<dir, count>>, objects[dir])
    /\ UNCHANGED <<file_handles, dev_handles>>

\* vfs_lookup(path); the caller gets the node pointer.  The function writes
\* to no memory, so it is not counted among the calls that change the state.
VfsLookup(path) ==
    /\ ~hung /\ ~undefined
    /\ vop' = [name |-> "vfs_lookup", arg |-> path, ret |-> 0,
               res |-> vfs_lookup(objects, root_node, path), before |-> <<>>,
               hooks |-> <<>>]
    /\ UNCHANGED <<heapVars, objects, root_node, mounts, registered_fs, device_list,
                   devfs_root, driver_list, undefined, file_handles, dev_handles, vcalls>>
\* ---------------------------------------------------------- specifications
vars == <<heapVars, modVars, sysVars, vfsVars, rela, intVars, elf>>

Init ==
    /\ HeapInit
    /\ ModuleInit
    /\ RelaInit /\ IntInit /\ ElfInit
    /\ SyscallInit
    /\ VfsInit

HeapNext ==
    \/ \E n \in ReqSizes : KmallocCall(n) /\ UNCHANGED <<modVars, sysVars, vfsVars, rela, intVars, elf>>
    \/ \E p \in live : KfreeCall(p) /\ UNCHANGED <<modVars, sysVars, vfsVars, rela, intVars, elf>>

SpecHeap == Init /\ [][HeapNext]_vars

\* The allocator with krealloc; a call that follows a copy over a block
\* header is not followed further.
ReallocNext ==
    \/ \E n \in {1, 40, 64} :
          KmallocCall(n) /\ ~undefined /\ calls < MaxReallocCalls
                         /\ UNCHANGED <<modVars, sysVars, vfsVars, rela, intVars, elf>>
    \/ \E p \in live :
          KfreeCall(p) /\ ~undefined /\ calls < MaxReallocCalls
                       /\ UNCHANGED <<modVars, sysVars, vfsVars, rela, intVars, elf>>
    \/ \E p \in live, n \in {1, HEAP_SIZE - 10 * HEADER_SIZE} :
          KreallocCall(p, n) /\ ~undefined /\ calls < MaxReallocCalls
                             /\ UNCHANGED <<modVars, sysVars, rela, intVars, elf, objects, root_node, mounts,
                                            registered_fs, device_list, devfs_root, driver_list,
                                            file_handles, dev_handles, vcalls, vop>>

SpecRealloc == Init /\ [][ReallocNext]_vars

ModuleNext ==
    \/ \E obj \in Objects : ModuleLoad(obj) /\ mcalls < MaxModCalls /\ UNCHANGED <<sysVars, vfsVars, rela, intVars, elf>>
    \/ \E obj \in Objects : ModuleUnload(obj.name) /\ mcalls < MaxModCalls /\ UNCHANGED <<sysVars, vfsVars, rela, intVars, elf>>
    \/ \E t \in SymbolTables : ModuleRegisterSymbols(t) /\ UNCHANGED <<sysVars, vfsVars, rela, intVars, elf>>
    \/ \E t \in SymbolTables : ElfRegisterKernelSymbols(t) /\ UNCHANGED <<sysVars, vfsVars, rela, intVars, elf>>
    \/ OtherHeapCall /\ UNCHANGED <<sysVars, vfsVars, rela, intVars, elf>>

SpecModule == Init /\ [][ModuleNext]_vars

\* The table a caller hands to elf_register_kernel_symbols after asking
\* module_find_symbol for the symbols the running modules export.
ExportTables ==
    {<< [name |-> n, address |-> module_find_symbol(loaded_modules, kernel_symbols, n)] >> :
        n \in {n \in {"a_func", "z_func"} :
                  module_find_symbol(loaded_modules, kernel_symbols, n) # NULL}}

\* The life cycle of modules: loads, unloads, references, dependencies.
LifeNext ==
    \/ \E obj \in LifeObjects : ModuleLoad(obj) /\ mcalls < MaxLifeCalls /\ UNCHANGED <<sysVars, vfsVars, rela, intVars, elf>>
    \/ \E obj \in LifeObjects : ModuleUnload(obj.name) /\ mcalls < MaxLifeCalls /\ UNCHANGED <<sysVars, vfsVars, rela, intVars, elf>>
    \/ \E obj \in LifeObjects : ModuleRef(obj.name) /\ mcalls < MaxLifeCalls /\ UNCHANGED <<sysVars, vfsVars, rela, intVars, elf>>
    \/ \E obj \in LifeObjects : ModuleUnref(obj.name) /\ mcalls < MaxLifeCalls /\ UNCHANGED <<sysVars, vfsVars, rela, intVars, elf>>
    \/ \E obj \in LifeObjects :
          ModuleSetFlag(obj.name, MODULE_FLAG_ESSENTIAL) /\ mcalls < MaxLifeCalls /\ UNCHANGED <<sysVars, vfsVars, rela, intVars, elf>>
    \/ \E a, b \in LifeObjects : ModuleAddDep(a.name, b.name) /\ mcalls < MaxLifeCalls /\ UNCHANGED <<sysVars, vfsVars, rela, intVars, elf>>
    \/ \E t \in ExportTables : ElfRegisterKernelSymbols(t) /\ UNCHANGED <<sysVars, vfsVars, rela, intVars, elf>>

SpecLife == Init /\ [][LifeNext]_vars

\* Syscall numbers and argument values a user program passes.  No handler
\* reads both rsi and rdx, so the two registers are given the same value.
SyscallNums == {-1, 0, 1, 3, 4, 5, 7, 9, 11, 12, 39, 40, 41, 42, 60, 63, 64, 100, 511, 512}
ArgVals == {0, 1, 3, 64, 8392704} \cup live

SyscallNext ==
    \/ \E num \in SyscallNums, a1 \in ArgVals, a2 \in {0, 64},
          a4 \in {0, MAP_ANONYMOUS}, a5 \in {-1, 3} :
            SyscallHandler(num, a1, a2, a2, a4, a5) /\ UNCHANGED <<modVars, vfsVars, rela, intVars, elf>>
    \/ \E enable \in {0, 1} : SyscallSetLinuxMode(enable) /\ UNCHANGED <<modVars, vfsVars, rela, intVars, elf>>

SpecSyscall == Init /\ [][SyscallNext]_vars

\* Paths callers pass.
VfsPaths == {<<"/">>, <<"/", "dev">>, <<"/", "dev", "/", "tty0">>, <<"/", "nodir">>}

\* The VFS and the device manager after boot, driven by drivers and callers.
InitVfs == ModuleInit /\ RelaInit /\ IntInit /\ ElfInit /\ SyscallInit /\ VfsState(VfsBoot, "device_init")

VfsNext ==
    \/ \E d \in {<<"tty0", DEV_TYPE_CHAR, 4>>, <<"sda", DEV_TYPE_BLOCK, 8>>},
          ops \in {{}, {"open", "close"}} :
            DeviceCreate(d[1], d[2], d[3], ops) /\ vcalls < MaxVfsCalls /\ UNCHANGED <<modVars, sysVars, rela, intVars, elf>>
    \/ \E dev \in dev_handles : DeviceRegister(dev) /\ vcalls < MaxVfsCalls /\ UNCHANGED <<modVars, sysVars, rela, intVars, elf>>
    \/ \E dev \in dev_handles : DeviceUnregister(dev) /\ vcalls < MaxVfsCalls /\ UNCHANGED <<modVars, sysVars, rela, intVars, elf>>
    \/ \E dev \in dev_handles : DeviceDestroy(dev) /\ vcalls < MaxVfsCalls /\ UNCHANGED <<modVars, sysVars, rela, intVars, elf>>
    \/ \E path \in VfsPaths : VfsUnlink(path) /\ vcalls < MaxVfsCalls /\ UNCHANGED <<modVars, sysVars, rela, intVars, elf>>
    \/ \E target \in VfsPaths, fstype \in {"devfs", "ext2"} :
            VfsMount(target, fstype) /\ vcalls < MaxVfsCalls /\ UNCHANGED <<modVars, sysVars, rela, intVars, elf>>
    \/ \E target \in VfsPaths : VfsUnmount(target) /\ vcalls < MaxVfsCalls /\ UNCHANGED <<modVars, sysVars, rela, intVars, elf>>
    \/ \E path \in VfsPaths, hook_rc \in {0, -5} :
            VfsOpen(path, 0, hook_rc) /\ vcalls < MaxVfsCalls /\ UNCHANGED <<modVars, sysVars, rela, intVars, elf>>
    \/ \E file \in file_handles : VfsClose(file, 0) /\ vcalls < MaxVfsCalls /\ UNCHANGED <<modVars, sysVars, rela, intVars, elf>>

SpecVfs == InitVfs /\ [][VfsNext]_vars

\* Two registered devices, then vfs_open and vfs_close only.
InitOpen ==
    /\ ModuleInit
    /\ RelaInit /\ IntInit /\ ElfInit
    /\ SyscallInit
    /\ VfsState(DeviceAdded(DeviceAdded(VfsBoot, "tty0", DEV_TYPE_CHAR, 4, {"open", "close"}),
                            "sda", DEV_TYPE_BLOCK, 8, {}),
                "device_register")

OpenNext ==
    \/ \E path \in (VfsPaths \ {<<"/">>}) \cup {<<"/", "dev", "/", "sda">>},
          flags \in {0, VFS_O_CREAT + VFS_O_TRUNC + VFS_O_APPEND}, hook_rc \in {0, -5} :
            /\ vcalls < MaxOpenCalls
            /\ VfsOpen(path, flags, hook_rc)
            /\ UNCHANGED <<modVars, sysVars, rela, intVars, elf>>
    \/ \E file \in file_handles, hook_rc \in {0, -5} :
            /\ vcalls < MaxOpenCalls
            /\ VfsClose(file, hook_rc)
            /\ UNCHANGED <<modVars, sysVars, rela, intVars, elf>>

SpecOpen == InitOpen /\ [][OpenNext]_vars

\* The path made of these components with a slash between two of them (an
\* empty component leaves two slashes next to each other), after a leading
\* slash when abs.
RECURSIVE JoinPath(_)
JoinPath(comps) ==
    IF comps = <<>> THEN <<>>
    ELSE (IF Head(comps) = "" THEN <<>> ELSE <<Head(comps)>>)
         \o (IF Tail(comps) = <<>> THEN <<>> ELSE <<"/">> \o JoinPath(Tail(comps)))

PathOf(abs, comps) == (IF abs THEN <<"/">> ELSE <<>>) \o JoinPath(comps)

\* Paths callers look up: absolute and relative, with empty components,
\* "." and "..", through the mount at /dev and out of it again.
LookupPaths ==
    {PathOf(abs, comps) :
        abs \in BOOLEAN,
        comps \in UNION {[1..n -> {"", ".", "..", "dev", "tty0", "a"}] : n \in 0..MaxComps}}
    \cup {PathOf(TRUE, comps) :
            comps \in {<<"dev", "tty0", "..", "..">>, <<"dev", "tty0", "..", "tty0">>,
                       <<"a", "..", "dev", "tty0">>, <<"dev", "..", "a", "a">>}}

\* The name space after boot with one registered device: directories are
\* made, opened, listed and looked up.  A lookup changes nothing, so a
\* lookup that follows a lookup finds what it finds after the call before.
InitDir ==
    /\ ModuleInit
    /\ RelaInit /\ IntInit /\ ElfInit
    /\ SyscallInit
    /\ VfsState(DeviceAdded(VfsBoot, "tty0", DEV_TYPE_CHAR, 4, {"open", "close"}),
                "device_register")

DirNext ==
    \/ \E path \in {<<"/", "a">>, <<"/", "a", "/", "a">>, <<"/", "dev", "/", "a">>} :
            /\ vcalls < MaxDirCalls
            /\ VfsMkdir(path, 493)
            /\ UNCHANGED <<modVars, sysVars, rela, intVars, elf>>
    \/ \E path \in {<<"/">>, <<"/", "dev">>} :
            /\ vcalls < MaxDirCalls
            /\ VfsOpen(path, 0, 0)
            /\ UNCHANGED <<modVars, sysVars, rela, intVars, elf>>
    \/ \E dir \in file_handles, count \in {1, 8} :
            /\ vcalls < MaxDirCalls
            /\ VfsReaddir(dir, count)
            /\ UNCHANGED <<modVars, sysVars, rela, intVars, elf>>
    \/ \E path \in LookupPaths :
            /\ vop.name # "vfs_lookup"
            /\ VfsLookup(path)
            /\ UNCHANGED <<modVars, sysVars, rela, intVars, elf>>

SpecDir == InitDir /\ [][DirNext]_vars

\* The relocation loop of elf_load_module, entry by entry.
InitReloc ==
    /\ HeapInit
    /\ ModuleInit
    /\ SyscallInit
    /\ VfsInit
    /\ IntInit
    /\ ElfInit
    /\ rela \in RelaInputs

RelocNext == ElfRelocate /\ UNCHANGED <<heapVars, modVars, sysVars, vfsVars, intVars, elf>>

SpecReloc == InitReloc /\ [][RelocNext]_vars

\* The device manager after boot: drivers create, register, unregister and
\* destroy devices; tty0 and tty1 are given the same device number.
DevNext ==
    \/ \E d \in {<<"tty0", DEV_TYPE_CHAR, 4>>, <<"tty1", DEV_TYPE_CHAR, 4>>,
                 <<"sda", DEV_TYPE_BLOCK, 8>>} :
            DeviceCreate(d[1], d[2], d[3], {}) /\ vcalls < MaxDevCalls /\ UNCHANGED <<modVars, sysVars, rela, intVars, elf>>
    \/ \E dev \in dev_handles : DeviceRegister(dev) /\ vcalls < MaxDevCalls /\ UNCHANGED <<modVars, sysVars, rela, intVars, elf>>
    \/ \E dev \in dev_handles : DeviceUnregister(dev) /\ vcalls < MaxDevCalls /\ UNCHANGED <<modVars, sysVars, rela, intVars, elf>>
    \/ \E dev \in dev_handles : DeviceDestroy(dev) /\ vcalls < MaxDevCalls /\ UNCHANGED <<modVars, sysVars, rela, intVars, elf>>

SpecDev == InitVfs /\ [][DevNext]_vars

\* Interrupts after idt_init and isr_init: drivers register and clear
\* handlers, the PICs raise IRQs 0..15 (vectors 32..47) and the CPU raises
\* exceptions (vectors 0..31).
RegVectors == {14, 33, 40, 47, 255}

IrqNext ==
    \/ \E n \in RegVectors, handler \in Handlers \cup {0} :
            RegisterInterruptHandler(n, handler)
              /\ UNCHANGED <<heapVars, modVars, sysVars, vfsVars, rela, elf>>
    \/ \E int_no \in 32..47 :
            IrqHandler(int_no) /\ UNCHANGED <<heapVars, modVars, sysVars, vfsVars, rela, elf>>
    \/ \E int_no \in 0..31 :
            IsrHandler(int_no) /\ UNCHANGED <<heapVars, modVars, sysVars, vfsVars, rela, elf>>

SpecIrq == Init /\ [][IrqNext]_vars

\* The allocator with kfree called on any pointer: null, the payload address
\* of every header ever written (live, free or swallowed by a merge) and an
\* address eight bytes into each of those payloads.
FreePtrs(h) ==
    {NULL} \cup {a + HEADER_SIZE : a \in DOMAIN h.mem}
           \cup {a + HEADER_SIZE + 8 : a \in DOMAIN h.mem}

FreeNext ==
    \/ \E n \in {1, 40, 64} :
          KmallocCall(n) /\ calls < MaxFreeCalls
                         /\ UNCHANGED <<modVars, sysVars, vfsVars, rela, intVars, elf>>
    \/ \E p \in FreePtrs(heap) :
          KfreeCall(p) /\ calls < MaxFreeCalls
                       /\ UNCHANGED <<modVars, sysVars, vfsVars, rela, intVars, elf>>

SpecFree == Init /\ [][FreeNext]_vars

\* The ELF entry points, called in any order on one file drawn from ElfFiles.
InitElf ==
    /\ HeapInit
    /\ ModuleInit
    /\ RelaInit /\ IntInit
    /\ SyscallInit
    /\ VfsInit
    /\ \E file \in ElfFiles : ElfState(file)

ElfNext ==
    \/ ElfValidate /\ mcalls < MaxElfCalls /\ UNCHANGED <<sysVars, vfsVars, rela, intVars>>
    \/ ElfLoadExecutable /\ mcalls < MaxElfCalls /\ UNCHANGED <<sysVars, vfsVars, rela, intVars>>
    \/ ElfLoadModule /\ mcalls < MaxElfCalls /\ UNCHANGED <<sysVars, vfsVars, rela, intVars>>

SpecElf == InitElf /\ [][ElfNext]_vars

\* The Linux layer after syscall_set_linux_mode(1): brk with arguments below,
\* inside and beyond the window, and the descriptor syscalls read, write,
\* close, fstat and ioctl (and open) with descriptors whose register rdi is
\* any 64-bit value: low half fd, high half 0, 1 or 0xFFFFFFFF.
SyscallInitLinux ==
    /\ linux_abi_mode = 1
    /\ syscall_table = syscall_init
    /\ linux_syscall_table = linux_syscall_init
    /\ fd_table = init_fd_table
    /\ program_break = 8388608
    /\ current_program_running = 0
    /\ program_exit_code = 0
    /\ console_out = 0
    /\ rax = 0
    /\ scalls = 0
    /\ sop = [name |-> "syscall_set_linux_mode", num |-> 1, mode |-> 0,
              table |-> "", handler |-> NoHandler, rdi |-> <<0, 0>>]

InitLinux ==
    /\ HeapInit
    /\ ModuleInit
    /\ RelaInit /\ IntInit /\ ElfInit
    /\ SyscallInitLinux
    /\ VfsInit

BrkArgs == {-1, 0, 1, 8388607, 8388608, 8392704, 12582912, 16777215, 16777216}

FdArgs == {-1, 0, 1, 2, 3, 15, 16}

LinuxNext ==
    \/ \E addr \in BrkArgs :
          SyscallHandler(12, addr, 0, 0, 0, 0)
            /\ UNCHANGED <<modVars, vfsVars, rela, intVars, elf>>
    \/ \E num \in {0, 1}, rdi_hi \in {-1, 0, 1}, fd \in FdArgs,
          count \in {0, 2}, keys \in {0, 3} :
          SyscallEntry(num, rdi_hi, fd, 0, count, 0, 0, keys, FALSE)
            /\ UNCHANGED <<modVars, vfsVars, rela, intVars, elf>>
    \/ \E num \in {2, 3, 5}, rdi_hi \in {-1, 0, 1}, fd \in FdArgs, fault \in BOOLEAN :
          SyscallEntry(num, rdi_hi, fd, 0, 0, 0, 0, 0, fault)
            /\ UNCHANGED <<modVars, vfsVars, rela, intVars, elf>>
    \/ \E rdi_hi \in {-1, 0, 1}, fd \in FdArgs, request \in {0, TIOCGWINSZ} :
          SyscallEntry(16, rdi_hi, fd, request, 0, 0, 0, 0, FALSE)
            /\ UNCHANGED <<modVars, vfsVars, rela, intVars, elf>>

SpecLinux == InitLinux /\ [][LinuxNext]_vars

\* The drivers kernel code and modules register: for the character
\* category with probe and attach hooks that succeed, fail or are missing,
\* for the unknown category, and one for block devices.
Drivers ==
    {Driver(2097152, "tty", DEV_TYPE_CHAR, "ok", "ok", {"read", "write"}),
     Driver(2097216, "tty_noattach", DEV_TYPE_CHAR, "ok", "fail", {"read"}),
     Driver(2097280, "tty_noprobe", DEV_TYPE_CHAR, "fail", "ok", {"read"}),
     Driver(2097344, "tty_nullprobe", DEV_TYPE_CHAR, "none", "ok", {"read"}),
     Driver(2097408, "tty_nullattach", DEV_TYPE_CHAR, "ok", "none", {"read"}),
     Driver(2097472, "generic", DEV_TYPE_UNKNOWN, "ok", "ok", {"ioctl"}),
     Driver(2097536, "generic_noattach", DEV_TYPE_UNKNOWN, "ok", "fail", {}),
     Driver(2097600, "disk", DEV_TYPE_BLOCK, "ok", "ok", {"read", "write"})}

\* The device manager with drivers: drivers register themselves, devices are
\* created with or without an operation table of their own and registered.
DrvNext ==
    \/ \E drv \in Drivers :
          DriverRegister(drv) /\ vcalls < MaxDrvCalls
                              /\ UNCHANGED <<modVars, sysVars, rela, intVars, elf>>
    \/ \E ops \in {{}, {"ioctl"}} :
          DeviceCreate("tty0", DEV_TYPE_CHAR, 4, ops) /\ vcalls < MaxDrvCalls
                              /\ UNCHANGED <<modVars, sysVars, rela, intVars, elf>>
    \/ \E dev \in dev_handles :
          DeviceRegister(dev) /\ vcalls < MaxDrvCalls
                              /\ UNCHANGED <<modVars, sysVars, rela, intVars, elf>>

SpecDrv == InitVfs /\ [][DrvNext]_vars

\* The name space after boot with one registered device: directories are
\* made and removed, nodes opened, closed and unlinked.
RmPaths == {<<"/">>, <<"/", "a">>, <<"/", "dev">>, <<"/", "dev", "/", "tty0">>}

RmNext ==
    \/ /\ vcalls < MaxRmCalls /\ ~RootGone
       /\ VfsMkdir(<<"/", "a">>, 493)
       /\ UNCHANGED <<modVars, sysVars, rela, intVars, elf>>
    \/ \E path \in RmPaths :
          /\ vcalls < MaxRmCalls /\ ~RootGone
          /\ VfsRmdir(path)
          /\ UNCHANGED <<modVars, sysVars, rela, intVars, elf>>
    \/ \E path \in RmPaths :
          /\ vcalls < MaxRmCalls /\ ~RootGone
          /\ VfsUnlink(path)
          /\ UNCHANGED <<modVars, sysVars, rela, intVars, elf>>
    \/ \E path \in RmPaths :
          /\ vcalls < MaxRmCalls /\ ~RootGone
          /\ VfsOpen(path, 0, 0)
          /\ UNCHANGED <<modVars, sysVars, rela, intVars, elf>>
    \/ \E file \in file_handles :
          /\ vcalls < MaxRmCalls
          /\ VfsClose(file, 0)
          /\ UNCHANGED <<modVars, sysVars, rela, intVars, elf>>
    \/ \E name \in {"vfs_rmdir", "vfs_open"} :
          /\ vcalls < MaxRmCalls
          /\ StaleRoot(name, <<"/">>)
          /\ UNCHANGED <<modVars, sysVars, rela, intVars, elf>>

SpecRm == InitDir /\ [][RmNext]_vars

\* The name space after boot: directories are made and removed, file systems
\* mounted and unmounted.
MntPaths == {<<"/">>, <<"/", "a">>, <<"/", "dev">>}

MntNext ==
    \/ /\ vcalls < MaxMntCalls /\ ~RootGone
       /\ VfsMkdir(<<"/", "a">>, 493)
       /\ UNCHANGED <<modVars, sysVars, rela, intVars, elf>>
    \/ \E path \in MntPaths :
          /\ vcalls < MaxMntCalls /\ ~RootGone
          /\ VfsRmdir(path)
          /\ UNCHANGED <<modVars, sysVars, rela, intVars, elf>>
    \/ \E target \in MntPaths :
          /\ vcalls < MaxMntCalls /\ ~RootGone
          /\ VfsMount(target, "devfs")
          /\ UNCHANGED <<modVars, sysVars, rela, intVars, elf>>
    \/ \E target \in MntPaths :
          /\ vcalls < MaxMntCalls
          /\ VfsUnmount(target)
          /\ UNCHANGED <<modVars, sysVars, rela, intVars, elf>>
    \/ \E name \in {"vfs_mkdir", "vfs_rmdir", "vfs_mount"} :
          /\ vcalls < MaxMntCalls
          /\ StaleRoot(name, <<"/">>)
          /\ UNCHANGED <<modVars, sysVars, rela, intVars, elf>>

SpecMnt == InitVfs /\ [][MntNext]_vars

\* The allocator with interrupts: the interrupted code calls kmalloc, and
\* interrupt handlers call kmalloc and kfree at any point of it.
IntrNext ==
    \/ \E n \in ReqSizes :
          KmallocEnter(n) /\ calls < MaxIntrCalls
                          /\ UNCHANGED <<modVars, sysVars, vfsVars, rela, intVars, elf>>
    \/ KmallocSplit /\ UNCHANGED <<modVars, sysVars, vfsVars, rela, intVars, elf>>
    \/ KmallocLeave /\ UNCHANGED <<modVars, sysVars, vfsVars, rela, intVars, elf>>
    \/ \E n \in ReqSizes :
          IrqKmalloc(n) /\ calls < MaxIntrCalls
                        /\ UNCHANGED <<modVars, sysVars, vfsVars, rela, intVars, elf>>
    \/ \E p \in live :
          IrqKfree(p) /\ calls < MaxIntrCalls
                      /\ UNCHANGED <<modVars, sysVars, vfsVars, rela, intVars, elf>>

SpecIntr == Init /\ [][IntrNext]_vars

\* Object files with two allocated sections: the code section (ELF index 1)
\* and a .bss section at the end (ELF index 6), each with its sh_addralign
\* and sh_size.
LayoutFile(name, align1, size1, align2, size2) ==
    [ObjFile(name, << Sym("", 0, 0), Sym("module_init", 1, 0) >>, << >>, 0)
       EXCEPT !.sections = [@ EXCEPT ![2] = Shdr(SHT_PROGBITS, TRUE, align1, size1, 0)]
                             \o << Shdr(SHT_NOBITS, TRUE, align2, size2, 0) >>]

LayoutObjects ==
    { LayoutFile("a16", 16, 64, 8, 8),
      LayoutFile("a0", 0, 16, 8, 8),
      LayoutFile("a1", 1, 5, 8, 8),
      LayoutFile("a8", 8, 24, 16, 16),
      LayoutFile("a8_0", 8, 24, 0, 16) }

\* Modules are loaded and unloaded; other heap users move the place of the
\* buffers.
LayoutNext ==
    \/ \E obj \in LayoutObjects :
          ModuleLoad(obj) /\ mcalls < MaxLayoutCalls
                          /\ UNCHANGED <<sysVars, vfsVars, rela, intVars, elf>>
    \/ \E obj \in LayoutObjects :
          ModuleUnload(obj.name) /\ mcalls < MaxLayoutCalls
                                 /\ UNCHANGED <<sysVars, vfsVars, rela, intVars, elf>>
    \/ OtherHeapCall /\ UNCHANGED <<sysVars, vfsVars, rela, intVars, elf>>

SpecLayout == Init /\ [][LayoutNext]_vars

\* The allocator with kcalloc; -1, -2 and -20 stand for 2^64 - 1, 2^64 - 2
\* and 2^64 - 20.
CallocCounts == {0, 1, 2, 3, -1, -2}
CallocSizes == {0, 8, 40, HEAP_SIZE, -1, -20}

CallocNext ==
    \/ \E count \in CallocCounts, size \in CallocSizes :
          KcallocCall(count, size) /\ calls < MaxCallocCalls
                                   /\ UNCHANGED <<modVars, sysVars, vfsVars, rela, intVars, elf>>
    \/ \E n \in {40, 64} :
          KmallocCall(n) /\ calls < MaxCallocCalls
                         /\ UNCHANGED <<modVars, sysVars, vfsVars, rela, intVars, elf>>
    \/ \E p \in live :
          KfreeCall(p) /\ calls < MaxCallocCalls
                       /\ UNCHANGED <<modVars, sysVars, vfsVars, rela, intVars, elf>>

SpecCalloc == Init /\ [][CallocNext]_vars
\* ------------------------------------------------------------ heap claims
RECURSIVE SumSeq(_, _)
SumSeq(mem, s) ==
    IF s = <<>> THEN 0
    ELSE mem[Head(s)].size + HEADER_SIZE + SumSeq(mem, Tail(s))

\* C1: every block header reachable from the arena's first block by forward
\* links carries the magic tag, and the payload sizes plus one header per
\* block add up to the arena size.
C1_MassConservation ==
    /\ \A b \in ChainSet(heap) : heap.mem[b].magic = BLOCK_MAGIC
    /\ SumSeq(heap.mem, Chain(heap)) = HEAP_SIZE

\* C2: after kfree returns, no free block of the chain has a free forward
\* or backward neighbour.
C2_NoAdjacentFree ==
    op.name = "kfree" =>
        \A b \in ChainSet(heap) :
            heap.mem[b].flags = BLOCK_FREE =>
                /\ heap.mem[b].next # NULL => heap.mem[heap.mem[b].next].flags # BLOCK_FREE
                /\ heap.mem[b].prev # NULL => heap.mem[heap.mem[b].prev].flags # BLOCK_FREE

\* The free blocks of the whole arena that can hold `size` bytes.
FreeFits(h, size) ==
    {b \in ChainSet(h) : h.mem[b].flags = BLOCK_FREE /\ UGe(h.mem[b].size, size)}

\* C3: kmalloc(n) returns the smallest free block of the whole arena whose
\* payload is at least the rounded request (and null only when none fits).
C3_BestFitWholeArena ==
    [][(op'.name = "kmalloc" /\ ~hung') =>
          LET fits == FreeFits(heap, AlignSize(op'.arg))
          IN IF fits = {} THEN op'.ret = NULL
             ELSE /\ op'.ret - HEADER_SIZE \in fits
                  /\ \A b \in fits :
                        ~ULt(heap.mem[b].size, heap.mem[op'.ret - HEADER_SIZE].size)
      ]_vars


\* C14: once every pointer kmalloc returned has been freed, the arena is a
\* single free block whose payload is the arena size minus one header.
C14_AllFreedIsOneBlock ==
    (live = {} /\ ~hung) =>
        /\ Chain(heap) = << HEAP_START >>
        /\ heap.mem[HEAP_START].flags = BLOCK_FREE
        /\ heap.mem[HEAP_START].size = HEAP_SIZE - HEADER_SIZE

\* C15: krealloc(p, n) on a live block with n > 0 returns p and leaves the
\* heap untouched when n is at most the block's payload size; otherwise it
\* returns a new live block that holds the old block's bytes, and the old
\* block is freed; or, when no block can be allocated, it returns null and
\* leaves the heap (p and its contents included) untouched.
C15_KreallocContract ==
    [][(op'.name = "krealloc" /\ calls' = calls + 1 /\ ~hung' /\ op'.size > 0) =>
          LET p == op'.arg
              n == op'.size
          IN IF IsBlockPtr(heap, p) /\ ~ULt(heap.mem[p - HEADER_SIZE].size, n)
               THEN op'.ret = p /\ heap' = heap
               ELSE \/ op'.ret = NULL /\ heap' = heap
                    \/ /\ op'.ret \notin {NULL, p}
                       /\ IsBlockPtr(heap', op'.ret)
                       /\ heap'.mem[op'.ret - HEADER_SIZE].flags = BLOCK_USED
                       /\ ~ULt(heap'.mem[op'.ret - HEADER_SIZE].size, n)
                       /\ op'.intact
                       /\ heap'.mem[p - HEADER_SIZE].flags = BLOCK_FREE
      ]_vars

\* The pointer is one kfree refuses: null, no header with the magic in front
\* of it, or a header that is not marked used.
Refused(h, ptr) ==
    \/ ptr = NULL
    \/ ~IsBlockPtr(h, ptr)
    \/ h.mem[ptr - HEADER_SIZE].flags # BLOCK_USED

\* C25: kfree of a null pointer, of a block that is already free or of a
\* pointer whose header magic is not 0xDEADBEEF changes nothing: the block
\* chain, the flags and sizes of the blocks, the used size and the allocation
\* count are as before the call.
C25_BadFreeIsNoOp ==
    [][op'.name = "kfree" /\ calls' = calls + 1 /\ Refused(heap, op'.arg) =>
          /\ heap'.mem = heap.mem
          /\ Chain(heap') = Chain(heap)
          /\ heap'.total_allocated = heap.total_allocated
          /\ heap'.num_allocations = heap.num_allocations]_vars

\* A second kfree of a pointer whose block the first one merged into its
\* neighbour has just been made, with another block still allocated.
C25_Witness ==
    /\ op.name = "kfree"
    /\ op.arg # NULL
    /\ IsBlockPtr(heap, op.arg)
    /\ heap.mem[op.arg - HEADER_SIZE].flags = BLOCK_FREE
    /\ op.arg - HEADER_SIZE \notin {Chain(heap)[i] : i \in 1..Len(Chain(heap))}
    /\ heap.num_allocations > 0
    /\ calls >= 4

\* The size of the payload kmalloc returned at p, from the block's header.
PayloadSize(h, p) == h.mem[p - HEADER_SIZE].size

\* The payloads at p and q share no byte.
Apart(h, p, q) == p + PayloadSize(h, p) <= q \/ q + PayloadSize(h, q) <= p

\* C31: the payloads of the blocks kmalloc returned and kfree has not taken
\* back are pairwise disjoint, lie inside the arena and contain no block
\* header reachable from the arena's first block; kmalloc never returns a
\* pointer its caller still holds.
C31_LivePayloadsDisjoint ==
    /\ [](\A p \in live :
            /\ p >= HEAP_START + HEADER_SIZE
            /\ PayloadSize(heap, p) >= 0
            /\ p + PayloadSize(heap, p) <= HEAP_END
            /\ \A q \in live \ {p} : Apart(heap, p, q)
            /\ \A b \in ChainSet(heap) :
                  b + HEADER_SIZE <= p \/ b >= p + PayloadSize(heap, p))
    /\ [][(op'.name = "kmalloc" /\ op'.ret # NULL) => op'.ret \notin live]_vars

\* C32: kmalloc splits the block it chose only when the block's payload
\* exceeds the rounded request by at least a header plus the minimum block
\* size: the block then keeps the rounded request and a free header for the
\* rest is written behind it.  In every other case (an exact fit and an
\* excess below a header included) the block is handed out with its size
\* unchanged and no header is written: the only store is the block's flag.
C32_SplitThreshold ==
    [][(op'.name = "kmalloc" /\ op'.ret # NULL /\ ~hung') =>
          LET block == op'.ret - HEADER_SIZE
              request == AlignSize(op'.arg)
              excess == heap.mem[block].size - request
          IN IF excess >= HEADER_SIZE + MIN_BLOCK_SIZE
               THEN /\ heap'.mem[block].size = request
                    /\ block + HEADER_SIZE + request \in DOMAIN heap'.mem
                    /\ heap'.mem[block + HEADER_SIZE + request].flags = BLOCK_FREE
                    /\ heap'.mem[block + HEADER_SIZE + request].size = excess - HEADER_SIZE
               ELSE heap'.mem = [heap.mem EXCEPT ![block].flags = BLOCK_USED]
      ]_vars

\* The pointer the step hands to a caller of kmalloc (NULL when none): what
\* the interrupted code's call returns, or what an interrupt handler's call
\* returned inside it.
Handed ==
    IF op'.name = "kmalloc" THEN op'.ret
    ELSE IF op'.name \in {"find_free_block", "split_block"} /\ InKmalloc /\ op'.irq # op.irq
      THEN op'.irq[Len(op'.irq)]
    ELSE NULL

ZeroBytes(mem, p, n) ==
    \A a \in DOMAIN mem :
       /\ Zeroed(a, 0, p, n) => mem[a].magic = ZERO_MAGIC /\ mem[a].flags = 0
       /\ Zeroed(a, 1, p, n) => mem[a].size = 0
       /\ Zeroed(a, 2, p, n) => mem[a].next = NULL
       /\ Zeroed(a, 3, p, n) => mem[a].prev = NULL

\* C40: kcalloc(count, size) returns a non-null pointer only to a block
\* whose payload holds at least count times size bytes, the product taken
\* in the integers and not modulo 2^64, all of them zero; a product of 2^64
\* or more makes it return null.
C40_KcallocProductFits ==
    [][(op'.name = "kcalloc" /\ op'.ret # NULL) =>
          LET count == op'.arg[1]
              size == op'.arg[2]
              block == op'.ret - HEADER_SIZE
          IN /\ ~hung'
             /\ count > 0 /\ size > 0
             /\ heap'.mem[block].flags = BLOCK_USED
             /\ count * size <= heap'.mem[block].size
             /\ ZeroBytes(heap'.mem, op'.ret, count * size)
      ]_vars

\* ---------------------------------------------------------- module claims
\* The symbols a relocation of obj names that are undefined in obj
\* (section index 0), by position in the list of relocations applied.
UndefinedRelas(obj) ==
    {j \in 1..Len(RelasApplied(obj)) : obj.symtab[RelasApplied(obj)[j] + 1].st_shndx = 0}

RelaName(obj, j) == obj.symtab[RelasApplied(obj)[j] + 1].name

\* C5: when module_load relocates a module, every relocation that names an
\* undefined symbol is resolved to the address module_find_symbol returns
\* for that name, and the load fails with symbol-not-found only when that
\* lookup finds nothing.
C5_RelocationUsesModuleFindSymbol ==
    [][(mop'.name = "module_load" /\ ~hung') =>
          \A obj \in Objects :
              obj.name = mop'.arg =>
                  /\ mop'.elf_rc = ELF_ERR_SYMBOL =>
                        \E j \in UndefinedRelas(obj) :
                            module_find_symbol(loaded_modules, kernel_symbols,
                                               RelaName(obj, j)) = NULL
                  /\ (mop'.ret \in {0, -6} /\ mop'.elf_rc = ELF_OK) =>
                        \A j \in UndefinedRelas(obj) :
                            loaded_modules'[1].image.resolved[j] =
                                module_find_symbol(loaded_modules, kernel_symbols,
                                                   RelaName(obj, j))
      ]_vars

\* C6: a successful module_load directly followed by a successful
\* module_unload of the same module leaves the heap statistics (used size,
\* allocation count, free-block count, largest free block) equal to their
\* values before the load.
C6_LoadUnloadKeepsHeapStats ==
    [][(/\ mop.name = "module_load" /\ mop.ret = 0
        /\ mop'.name = "module_unload" /\ mop'.ret = 0
        /\ mop'.arg = mop.arg)
          => heap_get_stats(heap') = mop.stats
      ]_vars

\* The names module_find_symbol may be asked for.
SymbolNames ==
    {builtin_symbols[k] : k \in 1..Len(builtin_symbols)}
      \cup UNION {{t[i].name : i \in 1..Len(t)} : t \in SymbolTables}
      \cup {"a_func", "module_init", "no_such_symbol"}

\* The first match for name in: the built-in table, the tables given to
\* module_register_symbols in the order they were given, the running
\* modules in list order.
FirstMatch(mods, tables, name) ==
    IF \E k \in 1..Len(builtin_symbols) : builtin_symbols[k] = name
      THEN KERNEL_TEXT + 16 * (CHOOSE k \in 1..Len(builtin_symbols) : builtin_symbols[k] = name)
    ELSE IF FindInTable(tables, name) # NULL THEN FindInTable(tables, name)
    ELSE FindInModules(mods, name)

\* C21: once a table has been given to module_register_symbols after an
\* earlier one, module_find_symbol returns for every name the first match
\* in the built-in table, then the earlier table, then the new one, then
\* the running modules in list order.
C21_FindSymbolOrder ==
    [][kernel_symbols' # kernel_symbols =>
          \A name \in SymbolNames :
              module_find_symbol(loaded_modules', kernel_symbols', name)
                = FirstMatch(loaded_modules', kernel_symbols \o kernel_symbols', name)
      ]_vars

\* What the claim says elf_validate answers for a header: invalid (-1) for a
\* short input or a wrong magic, else unsupported (-2) for a class other
\* than 64-bit, an encoding other than little-endian or a machine other than
\* x86_64, else ok (0).
Verdict(hdr) ==
    IF hdr.size < 64 \/ hdr.magic # "7F454C46" THEN -1
    ELSE IF hdr.ei_class # 2 \/ hdr.ei_data # 1 \/ hdr.e_machine # 62 THEN -2
    ELSE 0

\* The loader's answer for a header and the set of types it accepts.
LoaderVerdict(types) ==
    IF Verdict(Ehdr(elf'.file)) # 0
      THEN elf'.ret = Verdict(Ehdr(elf'.file)) /\ heap' = heap
    ELSE IF Ehdr(elf'.file).e_type \notin types
      THEN elf'.ret = -2 /\ heap' = heap
    ELSE elf'.ret # -2

\* C26: elf_validate returns invalid for an input shorter than an ELF64
\* header or with a wrong magic, unsupported for a wrong class, encoding or
\* machine, and ok otherwise; elf_load_executable accepts the types ET_EXEC
\* and ET_DYN only and elf_load_module the type ET_REL only, and each returns
\* unsupported for any other type with the heap as it was.
C26_ValidateAndTypes ==
    [][mcalls' = mcalls + 1 =>
          /\ elf'.name = "elf_validate" =>
                elf'.ret = Verdict(Ehdr(elf'.file)) /\ heap' = heap
          /\ elf'.name = "elf_load_executable" => LoaderVerdict({2, 3})
          /\ elf'.name = "elf_load_module" => LoaderVerdict({1})]_vars

\* A valid header of type ET_REL has just been refused by
\* elf_load_executable, after an earlier call allocated an image.
C26_Witness ==
    /\ elf.name = "elf_load_executable"
    /\ Verdict(Ehdr(elf.file)) = 0
    /\ Ehdr(elf.file).e_type = 1
    /\ elf.ret = -2
    /\ heap.num_allocations > 0

\* The object file a loaded module was made from.
LaidOut(m) == CHOOSE obj \in LayoutObjects : obj.name = m.name

\* The ELF indices of the allocated sections of obj.
AllocSections(obj) == {i \in 0..(Len(obj.sections) - 1) : obj.sections[i + 1].alloc}

\* C39: every allocated section of a loaded relocatable object has a runtime
\* range [addr, addr + sh_size) inside the buffer [base, base + total_size),
\* the ranges of distinct sections do not overlap, and addr is a multiple of
\* sh_addralign (0 and 1 ask for no alignment).
C39_SectionsInsideBuffer ==
    \A k \in 1..Len(loaded_modules) :
       LET m == loaded_modules[k]
           obj == LaidOut(m)
           base == m.image.base
       IN \A i \in AllocSections(obj) :
             LET sh == obj.sections[i + 1]
                 addr == SectionAddr(obj, base, i)
             IN /\ addr >= base
                /\ addr + sh.sh_size <= base + m.image.size
                /\ sh.sh_addralign <= 1 \/ addr % sh.sh_addralign = 0
                /\ \A j \in AllocSections(obj) \ {i} :
                      \/ addr + sh.sh_size <= SectionAddr(obj, base, j)
                      \/ SectionAddr(obj, base, j) + obj.sections[j + 1].sh_size <= addr

\* --------------------------------------------------------- syscall claims
\* The step just taken is a syscall entering through syscall_handler.
SyscallStep == scalls' = scalls + 1 /\ sop'.name = "syscall_handler"

\* The handler a table holds for a number (none beyond the table's end).
SlotOf(table, limit, num) ==
    IF num >= 0 /\ num < limit THEN table[num] ELSE NoHandler

C10_UnregisteredHasNoSideEffect ==
    [][(/\ SyscallStep
        /\ NoHandler = IF linux_abi_mode # 0
                         THEN SlotOf(linux_syscall_table, LINUX_MAX_SYSCALL, sop'.num)
                         ELSE SlotOf(syscall_table, MAX_SYSCALL, sop'.num))
          => /\ sop'.handler = NoHandler
             /\ rax' = IF linux_abi_mode # 0 THEN -38 ELSE -1
             /\ console_out' = IF linux_abi_mode # 0 THEN console_out + 3 ELSE console_out
             /\ ~hung'
             /\ UNCHANGED <<heap, live, fd_table, program_break, linux_abi_mode,
                            current_program_running, program_exit_code,
                            syscall_table, linux_syscall_table>>
      ]_vars

\* Native syscall 63 has been answered -1 after the heap was put to use.
C10_Witness ==
    /\ sop.name = "syscall_handler"
    /\ sop.mode = 0
    /\ sop.num = 63
    /\ sop.handler = NoHandler
    /\ rax = -1
    /\ live # {}

\* The step just taken is the Linux syscall `num` with these arguments.
LinuxCall(num, a1, a2, a3, a4, a5) ==
    linux_abi_mode # 0 /\ SyscallHandler(num, a1, a2, a3, a4, a5)

\* No block header is left readable inside the n bytes at p.
ReadsZero(h, p, n) ==
    \A a \in DOMAIN h.mem : (p <= a /\ a < p + n) => h.mem[a].magic = ZERO_MAGIC

\* C27: Linux mmap without MAP_ANONYMOUS returns the failure sentinel -1 for
\* every fd value and allocates nothing; with MAP_ANONYMOUS it returns a heap
\* block of at least length bytes, all zero, or the failure sentinel when
\* the heap cannot satisfy the request.
C27_MmapAnonymousOnly ==
    [][\A a1 \in ArgVals, length \in {0, 64}, flags \in {0, 32}, fd \in {-1, 3} :
          (LinuxCall(9, a1, length, length, flags, fd) /\ ~hung') =>
              IF flags = 0
                THEN rax' = -1 /\ heap' = heap
                ELSE \/ rax' = -1 /\ heap' = heap
                     \/ /\ IsBlockPtr(heap', rax')
                        /\ heap'.mem[rax' - HEADER_SIZE].flags = BLOCK_USED
                        /\ ~ULt(heap'.mem[rax' - HEADER_SIZE].size, length)
                        /\ ReadsZero(heap', rax', length)
      ]_vars

\* C28: over every sequence of brk calls the program break stays inside its
\* window (at least the initial break 0x800000 and below 0x1000000) and
\* never decreases; brk(0) does not change it, and every brk call returns
\* the break in force after the call.
C28_BreakInWindow ==
    /\ [](program_break >= 8388608 /\ program_break < 16777216)
    /\ [][/\ program_break' >= program_break
          /\ (SyscallStep /\ sop'.handler = "linux_sys_brk") => rax' = program_break'
          /\ LinuxCall(12, 0, 0, 0, 0, 0) => program_break' = program_break
         ]_vars

\* The break has been raised to the last address of the window and a further
\* brk call has been answered with it.
C28_Witness ==
    /\ sop.handler = "linux_sys_brk"
    /\ program_break = 16777215
    /\ rax = program_break
    /\ scalls = 3

\* The descriptor a syscall was given, from the two halves of rdi: inside
\* the table's range 0..15, and in use.
FdInRange(rdi) == rdi[1] = 0 /\ rdi[2] >= 0 /\ rdi[2] <= 15

FdInUse(table, rdi) == FdInRange(rdi) /\ table[rdi[2]].in_use # 0

FdSyscall ==
    /\ SyscallStep
    /\ linux_abi_mode # 0
    /\ sop'.handler \in FdHandlers

\* C29: after linux_syscall_init, over every sequence of Linux syscalls the
\* descriptors 0, 1 and 2 stay in use and bound to the console (a close on
\* them returns 0 and changes nothing), and read, write, close, fstat and
\* ioctl on a descriptor outside 0..15 or not in use return -9 (EBADF) and
\* have no side effect.
C29_DescriptorTable ==
    /\ [](\A fd \in 0..2 : fd_table[fd].in_use = 1 /\ fd_table[fd].type = 1)
    /\ [][FdSyscall =>
            /\ (sop'.handler = "linux_sys_close" /\ FdInRange(sop'.rdi) /\ sop'.rdi[2] <= 2)
                  => rax' = 0 /\ fd_table' = fd_table
            /\ ~FdInUse(fd_table, sop'.rdi) =>
                  /\ ~hung'
                  /\ rax' = -9
                  /\ UNCHANGED <<fd_table, heap, program_break, console_out>>
         ]_vars

\* ------------------------------------------------------ claims: VFS, devfs
DevPath(name) == <<"/", "dev", "/", name>>

\* C4: for every device D with name N, vfs_lookup("/dev/" + N) returns a
\* node whose private_data is D exactly when D is in the device registry.
C4_DevfsMirrorsRegistry ==
    \A d \in DOMAIN objects :
        (objects[d].kind = "device" /\ objects[d].alive) =>
            ((\E i \in 1..Len(device_list) : device_list[i] = d)
               <=> LET n == vfs_lookup(objects, root_node, DevPath(objects[d].name))
                   IN n # NULL /\ objects[n].private_data = d)

\* C7: a successful vfs_mount(target) directly followed by a successful
\* vfs_unmount(target) leaves the VFS structs, the mount descriptor of the
\* target node among them, and the mount table as they were before the mount.
C7_MountUnmountRestores ==
    [][(/\ vop.name = "vfs_mount" /\ vop.ret = 0
        /\ vop'.name = "vfs_unmount" /\ vop'.ret = 0
        /\ vop'.arg = vop.arg)
          => /\ mounts' = vop.before.mounts
             /\ [p \in {q \in DOMAIN objects' : objects'[q].alive} |-> objects'[p]]
                  = vop.before.objects
      ]_vars

\* C8: through vfs_open and vfs_close, every live node's ref_count is 1 plus
\* the number of open files whose node it is.
C8_RefCountCountsOpenFiles ==
    \A n \in DOMAIN objects :
        (objects[n].kind = "node" /\ objects[n].alive) =>
            objects[n].ref_count =
                1 + Cardinality({f \in DOMAIN objects :
                                    /\ objects[f].kind = "file"
                                    /\ objects[f].alive
                                    /\ objects[f].node = n})


\* The node's struct is in memory and has not been freed.
LiveNode(obj, node) == Valid(obj, node, "node") /\ obj[node].alive

\* The children of the directory, following the sibling links.
RECURSIVE Siblings(_, _)
Siblings(obj, c) == IF c = NULL THEN {} ELSE {c} \cup Siblings(obj, obj[c].next)

\* The devfs nodes in use: the children of the devfs root and the device
\* nodes open files point at.
DevfsNodes ==
    (IF devfs_root = NULL THEN {} ELSE Siblings(objects, objects[devfs_root].children))
      \cup {objects[f].node : f \in {g \in file_handles :
                                        /\ Valid(objects, objects[g].node, "node")
                                        /\ objects[objects[g].node].private_data # NULL}}

\* C35: there is no dangling cross-reference between a device and its devfs
\* node: every devfs node under /dev or held by an open file has not been
\* freed and its private_data points at a device that has not been
\* destroyed, every device's vfs_node is null or a node that has not been
\* freed, and no node is unreferenced after it was freed.
C35_NoDanglingDeviceNode ==
    /\ ~undefined
    /\ \A n \in DevfsNodes :
          /\ LiveNode(objects, n)
          /\ Valid(objects, objects[n].private_data, "device")
          /\ objects[objects[n].private_data].alive
    /\ \A d \in DOMAIN objects :
          (objects[d].kind = "device" /\ objects[d].alive /\ objects[d].vfs_node # NULL)
             => LiveNode(objects, objects[d].vfs_node)
    /\ \A n \in DOMAIN objects : objects[n].kind = "node" => objects[n].ref_count >= 0

\* ------------------------------------------------ module life cycle claims
Running == {i \in 1..Len(loaded_modules) : loaded_modules[i].state = MODULE_STATE_RUNNING}

C12_UnloadRejected ==
    [][(/\ mop'.name = "module_unload" /\ mcalls' = mcalls + 1
        /\ module_find(loaded_modules, mop'.arg) # 0
        /\ LET m == loaded_modules[module_find(loaded_modules, mop'.arg)]
           IN \/ (m.flags \div MODULE_FLAG_ESSENTIAL) % 2 = 1
              \/ m.ref_count > 1
              \/ Len(m.users) > 0)
          => /\ mop'.ret < 0
             /\ mop'.hooks = << >>
             /\ loaded_modules' = loaded_modules
             /\ module_count' = module_count
             /\ heap' = heap
      ]_vars

\* A module with a cleanup hook, one reference and a dependent was refused.
C12_Witness ==
    /\ mop.name = "module_unload" /\ mop.ret = -4
    /\ LET m == loaded_modules[module_find(loaded_modules, mop.arg)]
       IN m.ref_count = 1 /\ Len(m.users) = 1 /\ m.image.cleanup_func # NULL

\* The object file a loaded module came from.
ObjOf(m) == CHOOSE obj \in LifeObjects : obj.name = m.name

\* Module b had an undefined symbol resolved to an address inside the
\* image of module a.
ImportsFrom(b, a) ==
    \E j \in UndefinedRelas(ObjOf(b)) :
        /\ a.image.base <= b.image.resolved[j]
        /\ b.image.resolved[j] < a.image.base + a.image.size

\* C13: whenever a loaded module B had an undefined symbol resolved from a
\* running module A, B is in A's dependents list and A in B's dependencies
\* (so that module_unload(A) is refused while B is loaded).
C13_DependentsRecorded ==
    \A ia, ib \in 1..Len(loaded_modules) :
        LET a == loaded_modules[ia]
            b == loaded_modules[ib]
        IN (ia # ib /\ a.state = MODULE_STATE_RUNNING /\ ImportsFrom(b, a)) =>
              /\ \E k \in 1..Len(a.users) : a.users[k] = b.ptr
              /\ \E k \in 1..Len(b.deps) : b.deps[k] = a.ptr

Exports(m) ==
    {m.image.syms[k] : k \in {k \in 1..m.image.num_symbols :
                                 m.image.syms[k].st_shndx # 0 /\ m.image.syms[k].name # ""}}

\* C20: a module_load whose init hook returns non-zero returns failure and
\* leaves the module at the head of the loaded list in state error, its
\* image buffer a block in use; and as long as a module is in state error
\* module_find_symbol returns the address of none of its symbols.
C20_FailedInitStaysInError ==
    /\ [][(/\ mop'.name = "module_load"
           /\ mcalls' = mcalls + 1
           /\ mop'.hooks = << "init" >>
           /\ ~hung'
           /\ loaded_modules'[1].init_ret # 0)
          => /\ mop'.ret < 0
             /\ module_count' = module_count + 1
             /\ Tail(loaded_modules') = loaded_modules
             /\ loaded_modules'[1].name = mop'.arg
             /\ loaded_modules'[1].state = MODULE_STATE_ERROR
             /\ loaded_modules'[1].image.base # NULL
             /\ IsBlockPtr(heap', loaded_modules'[1].image.base)
             /\ heap'.mem[loaded_modules'[1].image.base - HEADER_SIZE].flags = BLOCK_USED
         ]_vars
    /\ [](\A i \in 1..Len(loaded_modules) :
             loaded_modules[i].state = MODULE_STATE_ERROR =>
                \A s \in Exports(loaded_modules[i]) :
                    module_find_symbol(loaded_modules, kernel_symbols, s.name) # s.st_value)

\* zeta, whose init hook returns -1, was loaded after alpha: it is in the
\* list in state error and exports z_func, alpha is running.
C20_Witness ==
    /\ mop.name = "module_load"
    /\ mop.arg = "zeta"
    /\ mop.ret = -6
    /\ Len(loaded_modules) = 2
    /\ loaded_modules[1].name = "zeta"
    /\ loaded_modules[1].state = MODULE_STATE_ERROR
    /\ \E s \in Exports(loaded_modules[1]) : s.name = "z_func"
    /\ loaded_modules[2].state = MODULE_STATE_RUNNING
    /\ module_find_symbol(loaded_modules, kernel_symbols, "module_init") # NULL

\* ------------------------------------------------------------ name space
DevPathTty0 == <<"/", "dev", "/", "tty0">>

EntryNames(entries) == {entries[i].name : i \in DOMAIN entries}

\* C16: with devfs mounted at /dev and tty0 registered, vfs_readdir on a
\* file just opened on /dev, with room for eight entries, yields an entry
\* named tty0, the node that vfs_lookup("/dev/tty0") resolves.
C16_ReaddirListsDevices ==
    [][(/\ vop'.name = "vfs_readdir"
        /\ vcalls' = vcalls + 1
        /\ vop'.arg[2] = 8
        /\ vop'.before.node = vfs_lookup(objects, root_node, <<"/", "dev">>)
        /\ vop'.before.offset = 0
        /\ objects[vop'.before.node].mount # NULL
        /\ vfs_lookup(objects, root_node, DevPathTty0) # NULL)
       => "tty0" \in EntryNames(vop'.res)]_vars

\* The components of a path that name something: neither empty nor ".".
RefComponents(path) == SelectSeq(path, LAMBDA t : t \notin {"/", "."})

\* c comes before d in a child list (or is d).
RECURSIVE ListReaches(_, _, _)
ListReaches(obj, c, d) ==
    IF c = NULL THEN FALSE
    ELSE IF c = d THEN TRUE
    ELSE ListReaches(obj, obj[c].next, d)

\* The first child of dir that has this name, NULL when none has.
RefChild(obj, dir, name) ==
    LET S == {n \in DOMAIN obj : /\ obj[n].kind = "node" /\ obj[n].alive
                                 /\ obj[n].parent = dir /\ obj[n].name = name}
    IN IF S = {} THEN NULL
       ELSE CHOOSE n \in S : \A m \in S : ListReaches(obj, n, m)

\* The reference resolver: ".." moves to the parent and stays where there
\* is none, a name descends into the mount's root when the directory
\* carries a mount, a missing component ends the walk with NULL.
RECURSIVE RefResolve(_, _, _)
RefResolve(obj, cur, comps) ==
    IF cur = NULL \/ comps = <<>> THEN cur
    ELSE IF Head(comps) = ".."
      THEN RefResolve(obj, IF obj[cur].parent = NULL THEN cur ELSE obj[cur].parent,
                      Tail(comps))
    ELSE RefResolve(obj,
                    RefChild(obj, IF obj[cur].mount = NULL THEN cur
                                  ELSE obj[obj[cur].mount].root, Head(comps)),
                    Tail(comps))

RefLookup(obj, root, path) ==
    IF path = <<>> THEN NULL
    ELSE IF path[1] # "/" THEN NULL
    ELSE RefResolve(obj, root, RefComponents(path))

\* C17: vfs_lookup answers NULL for an empty or relative path and what the
\* reference resolver answers for an absolute one, and leaves the tree,
\* the reference counts and the heap as they were.
C17_LookupIsReference ==
    [][vop'.name = "vfs_lookup"
       => /\ vop'.res = RefLookup(objects, root_node, vop'.arg)
          /\ UNCHANGED <<objects, root_node, mounts, devfs_root, heap>>]_vars

\* "/dev/tty0/../.." was looked up: into the mount, up to its root, and
\* one ".." more where there is no parent.
C17_Witness ==
    /\ vop.name = "vfs_lookup"
    /\ vop.arg = <<"/", "dev", "/", "tty0", "/", "..", "/", "..">>
    /\ vop.res = devfs_root
    /\ devfs_root # NULL
    /\ \E n \in DOMAIN objects : objects[n].kind = "node" /\ objects[n].name = "a"

\* C23: no directory node has two children of the same name.
C23_NoDuplicateNames ==
    ~undefined =>
      \A n, m \in DOMAIN objects :
          (/\ n # m
           /\ objects[n].kind = "node" /\ objects[n].alive
           /\ objects[m].kind = "node" /\ objects[m].alive
           /\ objects[n].parent # NULL
           /\ objects[n].parent = objects[m].parent
           /\ ListReaches(objects, objects[objects[n].parent].children, n)
           /\ ListReaches(objects, objects[objects[n].parent].children, m))
          => objects[n].name # objects[m].name

\* The files callers hold open on the node.
OpenOn(node) == {f \in file_handles : objects[f].node = node}

\* A vfs_unlink or vfs_rmdir call that removed the node the path names.
RemoveStep == vop'.name \in {"vfs_unlink", "vfs_rmdir"} /\ vop'.ret = 0 /\ vcalls' = vcalls + 1

\* C34: when vfs_unlink or vfs_rmdir removes a node that files are open on,
\* the node leaves its parent's children at once and is not freed; it is
\* freed by the vfs_close of the last of those files; and in no state does
\* an open file point at a node that has been freed.
C34_OpenNodeOutlivesUnlink ==
    /\ [](\A f \in file_handles : LiveNode(objects, objects[f].node))
    /\ [][/\ RemoveStep =>
               LET node == vfs_lookup(objects, root_node, vop'.arg)
               IN OpenOn(node) # {} =>
                     /\ LiveNode(objects', node)
                     /\ objects'[node].parent = NULL
                     /\ objects[node].parent # NULL =>
                           node \notin Siblings(objects', objects'[objects[node].parent].children)
          /\ (vop'.name = "vfs_close" /\ vcalls' = vcalls + 1) =>
               LET node == objects[vop'.arg[1]].node
               IN (LiveNode(objects, node) /\ objects[node].parent = NULL
                     /\ node # root_node /\ node # devfs_root) =>
                        (LiveNode(objects', node) <=> OpenOn(node) # {vop'.arg[1]})
         ]_vars

\* ------------------------------------------------------------ relocations
\* The four 16-bit digits of a 64-bit value, lowest first.
Digits(x) == [i \in 1..4 |-> x[2 * i - 1] + 256 * x[2 * i]]

\* Digit i of (s + a) mod 2^64 and the carry out of it, by the school method.
RECURSIVE SumCarry(_, _, _)
SumCarry(s, a, i) ==
    IF i = 0 THEN 0 ELSE (s[i] + a[i] + SumCarry(s, a, i - 1)) \div 65536
SumDigits(s, a) == [i \in 1..4 |-> (s[i] + a[i] + SumCarry(s, a, i - 1)) % 65536]

\* Digit i of (x - p) mod 2^64 and the borrow out of it.
RECURSIVE DiffBorrow(_, _, _)
DiffBorrow(x, p, i) ==
    IF i = 0 THEN 0
    ELSE IF x[i] - p[i] - DiffBorrow(x, p, i - 1) < 0 THEN 1 ELSE 0
DiffDigits(x, p) ==
    [i \in 1..4 |-> (x[i] - p[i] - DiffBorrow(x, p, i - 1) + 65536) % 65536]

\* The bytes of a digit sequence, lowest first.
DigitBytes(d) == [k \in 1..(2 * Len(d)) |-> IF k % 2 = 1 THEN d[(k + 1) \div 2] % 256
                                                         ELSE d[k \div 2] \div 256]

\* S, A and P of the relocation entry, and S + A, S + A - P modulo 2^64.
RelaS == Digits(rela.sym_val)
RelaA == Digits(rela.r_addend)
RelaP == SumDigits(Digits(rela.target_base), Digits(rela.r_offset))
RelaSA == DigitBytes(SumDigits(RelaS, RelaA))
RelaSAP == DigitBytes(DiffDigits(SumDigits(RelaS, RelaA), RelaP))

\* Four stored bytes read back as an int32_t.
Signed32(b) ==
    b[1] + 256 * b[2] + 65536 * b[3]
      + 16777216 * (IF b[4] >= 128 THEN b[4] - 256 ELSE b[4])

\* A 64-bit value below 2^30 in size, as an integer.
IsSmall(x) ==
    \/ (\A i \in 5..8 : x[i] = 0) /\ x[4] < 64
    \/ (\A i \in 5..8 : x[i] = 255) /\ x[4] >= 192
SmallInt(x) == Signed32(SubSeq(x, 1, 4))

\* C18: an applied relocation leaves at the site: for R_X86_64_64 the eight
\* bytes of (S + A) mod 2^64; for R_X86_64_PC32 and R_X86_64_PLT32 the low
\* four bytes of S + A - P, which read back as the signed number S + A - P
\* when S, A and P are small; for R_X86_64_32 and R_X86_64_32S the low four
\* bytes of S + A; a 32-bit relocation leaves every byte after the fourth
\* as it was, and so does a 64-bit one after the eighth.
C18_RelocationArithmetic ==
    rela.applied =>
      /\ rela.rel_type = R_X86_64_64 =>
            /\ SubSeq(rela.after, 1, 8) = RelaSA
            /\ SubSeq(rela.after, 9, 12) = SubSeq(rela.site, 9, 12)
      /\ rela.rel_type \in {R_X86_64_PC32, R_X86_64_PLT32} =>
            /\ SubSeq(rela.after, 1, 4) = SubSeq(RelaSAP, 1, 4)
            /\ SubSeq(rela.after, 5, 12) = SubSeq(rela.site, 5, 12)
            /\ (/\ IsSmall(rela.sym_val) /\ IsSmall(rela.r_addend)
                /\ IsSmall(Add64(rela.target_base, rela.r_offset))) =>
                  Signed32(SubSeq(rela.after, 1, 4))
                    = SmallInt(rela.sym_val) + SmallInt(rela.r_addend)
                      - SmallInt(Add64(rela.target_base, rela.r_offset))
      /\ rela.rel_type \in {R_X86_64_32, R_X86_64_32S} =>
            /\ SubSeq(rela.after, 1, 4) = SubSeq(RelaSA, 1, 4)
            /\ SubSeq(rela.after, 5, 12) = SubSeq(rela.site, 5, 12)

\* A PC-relative relocation with addend -4 against a kernel symbol below
\* the site was applied over non-zero bytes: the stored number is negative.
C18_Witness ==
    /\ rela.applied
    /\ rela.rel_type = R_X86_64_PC32
    /\ rela.r_addend = <<252, 255, 255, 255, 255, 255, 255, 255>>
    /\ rela.sym_val = LE(KERNEL_TEXT + 16, 8)
    /\ rela.site[5] # 0
    /\ Signed32(SubSeq(rela.after, 1, 4)) < 0
    /\ rela.after # rela.site

\* The nodes reachable from node through children and sibling links, within
\* depth levels.
RECURSIVE TreeNodes(_, _, _)
TreeNodes(obj, node, depth) ==
    IF node = NULL \/ depth = 0 \/ ~LiveNode(obj, node) THEN {}
    ELSE {node} \cup UNION {TreeNodes(obj, c, depth - 1) : c \in Siblings(obj, obj[node].children)}

\* The node has not been freed and is the root or hangs below it.
Attached(node) == LiveNode(objects, node) /\ node \in TreeNodes(objects, root_node, 4)

\* C36: vfs_rmdir never detaches or frees the root node or a directory that
\* carries a mount descriptor: the root is a node that has not been freed and
\* the mount_point of every mount-table entry has not been freed and is
\* attached to the tree.
C36_RmdirSparesRootAndMountPoints ==
    /\ root_node # NULL /\ LiveNode(objects, root_node)
    /\ \A i \in 1..Len(mounts) : Attached(objects[mounts[i]].mount_point)

\* ---------------------------------------------------------- device claims
\* Device dev has the name or the device number of a registered device.
Clashes(obj, list, dev) ==
    \E i \in 1..Len(list) :
        \/ obj[list[i]].name = obj[dev].name
        \/ obj[list[i]].major = obj[dev].major /\ obj[list[i]].minor = obj[dev].minor

\* C22: no two devices of the registry share a name or a (major, minor)
\* pair, and a device_register call for a device that has the name or the
\* number of a registered one is rejected and leaves the registry and the
\* nodes of /dev as they were.
C22_RegistryUnique ==
    /\ [](~undefined =>
            \A i, j \in 1..Len(device_list) :
                i # j =>
                  /\ objects[device_list[i]].name # objects[device_list[j]].name
                  /\ ~(/\ objects[device_list[i]].major = objects[device_list[j]].major
                       /\ objects[device_list[i]].minor = objects[device_list[j]].minor))
    /\ [][(/\ vop'.name = "device_register"
           /\ vcalls' = vcalls + 1
           /\ ~undefined' /\ ~hung'
           /\ Clashes(objects, device_list, vop'.arg[1]))
          => /\ vop'.ret < 0
             /\ device_list' = device_list
             /\ objects' = objects
         ]_vars

\* The position of the driver at address a in the registry, and the driver.
DriverPos(a) == CHOOSE i \in 1..Len(driver_list) : driver_list[i].addr = a
DriverAt(a) == driver_list[DriverPos(a)]

\* The drivers a hook of the given kind was called on in the trace.
HookedBy(hooks, kind) == {hooks[i][2] : i \in {j \in 1..Len(hooks) : hooks[j][1] = kind}}

\* The drivers of the registry a device of the given type can be probed by,
\* and among them the first whose probe hook returns success.
Candidates(type) ==
    {i \in 1..Len(driver_list) :
        driver_list[i].type \in {type, DEV_TYPE_UNKNOWN} /\ driver_list[i].probe = "ok"}

FirstProbed(type) == CHOOSE i \in Candidates(type) : \A j \in Candidates(type) : i <= j

\* A device_register call that got as far as the driver registry.
RegisterStep == vop'.name = "device_register" /\ vop'.ret = 0 /\ vcalls' = vcalls + 1

\* What the two readings of the claim share: the hooks are called in
\* registry order, only drivers of the device's category or of the unknown
\* category are probed, and a driver whose attach succeeds becomes the
\* device's driver, ends the search and gives the device its default
\* operation table only if the device had none.
RegisterProbes(dev, hooks) ==
    /\ \A i, j \in 1..Len(hooks) :
          i < j => DriverPos(hooks[i][2]) <= DriverPos(hooks[j][2])
    /\ \A a \in HookedBy(hooks, "probe") :
          DriverAt(a).type \in {objects[dev].type, DEV_TYPE_UNKNOWN}
    /\ \A a \in HookedBy(hooks, "attach") :
          DriverAt(a).attach = "ok" =>
             /\ objects'[dev].driver = a
             /\ \A b \in HookedBy(hooks, "probe") : DriverPos(b) <= DriverPos(a)
             /\ objects'[dev].ops = IF objects[dev].ops = {} THEN DriverAt(a).ops
                                    ELSE objects[dev].ops
    /\ (\A a \in HookedBy(hooks, "attach") : DriverAt(a).attach # "ok") =>
          /\ objects'[dev].driver = NULL
          /\ objects'[dev].ops = objects[dev].ops

\* C33: during device_register drivers are considered in registry order and
\* only those whose category equals the device's or is unknown are probed;
\* attach is invoked only on the first driver whose probe succeeds; if that
\* attach succeeds the driver becomes the device's driver, no later driver
\* is probed, and the device's operation table is set to the driver's
\* default only if the device had none.
C33_FirstProbeAttaches ==
    [][RegisterStep =>
          /\ RegisterProbes(vop'.arg[1], vop'.hooks)
          /\ \A a \in HookedBy(vop'.hooks, "attach") :
                /\ Candidates(objects[vop'.arg[1]].type) # {}
                /\ DriverPos(a) = FirstProbed(objects[vop'.arg[1]].type)
      ]_vars

\* C33 as amended: attach is invoked only on drivers whose probe has just
\* succeeded, on the first such driver whenever it has an attach hook, and on
\* a later one only while no attach has succeeded.
C33_AttachUntilSuccess ==
    [][RegisterStep =>
          /\ RegisterProbes(vop'.arg[1], vop'.hooks)
          /\ \A a \in HookedBy(vop'.hooks, "attach") :
                /\ a \in HookedBy(vop'.hooks, "probe")
                /\ DriverAt(a).probe = "ok"
                /\ \A b \in HookedBy(vop'.hooks, "attach") :
                      DriverPos(b) < DriverPos(a) => DriverAt(b).attach # "ok"
          /\ (/\ Candidates(objects[vop'.arg[1]].type) # {}
              /\ driver_list[FirstProbed(objects[vop'.arg[1]].type)].attach # "none")
                => driver_list[FirstProbed(objects[vop'.arg[1]].type)].addr
                      \in HookedBy(vop'.hooks, "attach")
      ]_vars

\* device_register has probed two drivers: the attach hook of the first
\* failed, that of the second succeeded and bound it to the device, which
\* kept the operation table it came with.
C33_Witness ==
    /\ vop.name = "device_register"
    /\ vop.ret = 0
    /\ Len(vop.hooks) = 4
    /\ vop.hooks[2][1] = "attach"
    /\ vop.hooks[4][1] = "attach"
    /\ vop.hooks[2][2] # vop.hooks[4][2]
    /\ objects[vop.arg[1]].driver = vop.hooks[4][2]
    /\ objects[vop.arg[1]].ops = {"ioctl"}

\* ---------------------------------------------------------------------------
\* Claims about interrupt dispatch and the IDT.
\* ---------------------------------------------------------------------------

\* Positions of the trace where a port write to `port` / a handler call is.
WritesTo(trace, port) ==
    {i \in 1..Len(trace) : trace[i].op = "outb" /\ trace[i].port = port}

CallsIn(trace) == {i \in 1..Len(trace) : trace[i].op = "call"}

IrqDispatched == irq.name = "irq_handler" /\ irq.int_no \in 32..47

\* C24: for every dispatched hardware IRQ (vectors 32..47) every EOI write
\* precedes the call of the registered handler; for a vector >= 40 the slave
\* PIC is written before the master, for a vector < 40 the slave is never
\* written; without a registered handler the EOI writes are all that happens.
C24_EoiBeforeHandler ==
    IrqDispatched =>
        LET t == irq.trace
            eois == {i \in 1..Len(t) : t[i].op = "outb" /\ t[i].val = PIC_EOI}
            master == WritesTo(t, PIC1_COMMAND)
            slave == WritesTo(t, PIC2_COMMAND)
        IN  /\ master # {}
            /\ \A i \in eois, j \in CallsIn(t) : i < j
            /\ irq.int_no >= 40 =>
                 /\ slave # {}
                 /\ \E i \in slave : \A j \in master : i < j
            /\ irq.int_no < 40 => slave = {}
            /\ interrupt_handlers[irq.int_no] = 0 =>
                 \A i \in 1..Len(t) : i \in eois
            /\ interrupt_handlers[irq.int_no] # 0 =>
                 /\ CallsIn(t) = {Len(t)}
                 /\ t[Len(t)].val = interrupt_handlers[irq.int_no]

C24_Witness ==
    /\ IrqDispatched
    /\ irq.int_no >= 40
    /\ interrupt_handlers[irq.int_no] # 0
    /\ CallsIn(irq.trace) # {}

Present(gate) == (gate.flags \div 128) % 2 = 1

GateBase(gate) == <<gate.base_low, gate.base_mid, gate.base_high>>

\* C30: after idt_init and isr_init every IDT entry with the present bit set
\* has a non-zero handler address, selector 0x08 and type byte 0x8E, and a
\* register_interrupt_handler call changes the handler-table slot of its
\* vector only: the IDT and every other slot stay as they were.
C30_IdtFixedAfterInit ==
    /\ [](\A n \in Vectors :
            Present(idt[n]) =>
                /\ GateBase(idt[n]) # <<0, 0, 0>>
                /\ idt[n].sel = 8
                /\ idt[n].flags = 142)
    /\ [][irq'.name = "register_interrupt_handler" =>
            /\ idt' = idt
            /\ \A m \in Vectors \ {irq'.int_no} :
                    interrupt_handlers'[m] = interrupt_handlers[m]]_vars

C30_Witness ==
    /\ irq.name = "register_interrupt_handler"
    /\ interrupt_handlers[irq.int_no] # 0
    /\ Present(idt[irq.int_no])
    /\ \E m \in Vectors \ {irq.int_no} : interrupt_handlers[m] # 0

\* The number of EOI commands a dispatch wrote to the command port.
EoiCount(trace, port) ==
    Cardinality({i \in 1..Len(trace) : trace[i] = Outb(port, PIC_EOI)})

\* C38: for each dispatched hardware IRQ the master PIC receives exactly one
\* EOI command, and the slave PIC exactly one when the vector is >= 40 and
\* none otherwise.
C38_OneEoiPerPic ==
    irq.name = "irq_handler" =>
       /\ EoiCount(irq.trace, PIC1_COMMAND) = 1
       /\ EoiCount(irq.trace, PIC2_COMMAND) = (IF irq.int_no >= 40 THEN 1 ELSE 0)
====
